---- MODULE Spec2Model ----
(***************************************************************************)
(* A model of the statistics engine of the A/B testing tool:               *)
(*   models/experiment.py        ExperimentParams                          *)
(*   stats/experiment_duration.py calculate_sample_size,                   *)
(*                                calculate_experiment_duration            *)
(*   stats/sample_size.py        calculate_sample_size (effect-size path)  *)
(*   stats/hypothesis_testing.py proportion_test, mean_test                *)
(*   stats/validation.py         aa_test                                   *)
(*                                                                         *)
(* Every function of the engine is a pure function, so a state of the      *)
(* model is one finished invocation: the operation, its arguments and its  *)
(* outcome (a returned value or a raised exception).                       *)
(*                                                                         *)
(* Python floats are IEEE-754 binary64 numbers.  Where a result is rounded *)
(* to an integer (np.ceil) the rounding error of the float operations      *)
(* before it decides the result, so those computations are carried out on  *)
(* binary64 values: a 53-bit significand, kept as a sequence of 15-bit     *)
(* limbs because TLC's integers are 32 bits wide, and a binary             *)
(* exponent, each operation rounding to nearest, ties to even.             *)
(***************************************************************************)
EXTENDS Integers, Sequences, FiniteSets, TLC

(***************************************************************************)
(* Natural numbers of any size: little-endian sequences of limbs in        *)
(* 0..LimbBase-1 without leading zero limbs; <<>> is zero.                 *)
(***************************************************************************)
LimbBits == 15

LimbBase == 32768

\* The operations of this module are evaluated by one recursive operator,
\* Eval, defined after them: a named operation applies Eval to its name and
\* its arguments, and Eval holds the body of each.  The loops over the limbs
\* of a big number recurse directly.
RECURSIVE Eval(_, _, _, _, _)

Pow2(k) == 2 ^ k

Limb(a, i) == IF i <= Len(a) THEN a[i] ELSE 0

Max2(x, y) == IF x >= y THEN x ELSE y

Zeros(n) == [i \in 1..n |-> 0]

BBit(a, i) == (Limb(a, (i \div LimbBits) + 1) \div Pow2(i % LimbBits)) % 2

BIsOdd(a) == a # <<>> /\ a[1] % 2 = 1

\* The low n bits of a are all zero.
BLowZero(a, n) ==
    /\ \A i \in 1..(n \div LimbBits) : Limb(a, i) = 0
    /\ Limb(a, (n \div LimbBits) + 1) % Pow2(n % LimbBits) = 0

\* -1, 0 or 1 as the low k bits of a are below, at or above half of 2^k.
BCmpHalf(a, k) ==
    IF BBit(a, k - 1) = 0 THEN -1 ELSE IF BLowZero(a, k - 1) THEN 0 ELSE 1

(***************************************************************************)
(* binary64 values.  A finite value is s * m * 2^e with s the sign, m the  *)
(* significand (2^52 <= m < 2^53, or zero) and e the exponent; "inf" and   *)
(* "nan" are the IEEE infinities and not-a-number.  The exponent range is  *)
(* not modelled: no operation of the model overflows or underflows, and a  *)
(* zero carries no sign.                                                   *)
(***************************************************************************)
Fin(s, m, e) == [k |-> "fin", s |-> s, m |-> m, e |-> e]

Zero == Fin(1, <<>>, 0)

NaN == [k |-> "nan", s |-> 1, m |-> <<>>, e |-> 0]

Inf(s) == [k |-> "inf", s |-> s, m |-> <<>>, e |-> 0]

IsNaN(a) == a.k = "nan"

IsInf(a) == a.k = "inf"

IsZero(a) == a.k = "fin" /\ a.m = <<>>

RECURSIVE BNorm(_)
BNorm(a) ==
    IF a = <<>> THEN <<>>
    ELSE IF a[Len(a)] = 0 THEN BNorm(SubSeq(a, 1, Len(a) - 1)) ELSE a

BFromInt(n) == Eval("BFromInt", n, 0, 0, 0)

BToInt(a) == Eval("BToInt", a, 0, 0, 0)

\* -1, 0 or 1 as a < b, a = b or a > b, comparing from the top limb down.
RECURSIVE BCmpAt(_, _, _)
BCmpAt(a, b, i) ==
    IF i = 0 THEN 0
    ELSE IF Limb(a, i) < Limb(b, i) THEN -1
    ELSE IF Limb(a, i) > Limb(b, i) THEN 1
    ELSE BCmpAt(a, b, i - 1)

BCmp(a, b) == Eval("BCmp", a, b, 0, 0)

RECURSIVE BAddAt(_, _, _, _)
BAddAt(a, b, i, carry) ==
    IF i > Max2(Len(a), Len(b))
    THEN IF carry = 0 THEN <<>> ELSE <<carry>>
    ELSE LET s == Limb(a, i) + Limb(b, i) + carry
         IN  <<s % LimbBase>> \o BAddAt(a, b, i + 1, s \div LimbBase)

BAdd(a, b) == Eval("BAdd", a, b, 0, 0)

\* a - b for a >= b.
RECURSIVE BSubAt(_, _, _, _)
BSubAt(a, b, i, borrow) ==
    IF i > Len(a) THEN <<>>
    ELSE LET d == Limb(a, i) - Limb(b, i) - borrow
         IN  IF d < 0
             THEN <<d + LimbBase>> \o BSubAt(a, b, i + 1, 1)
             ELSE <<d>> \o BSubAt(a, b, i + 1, 0)

BSub(a, b) == Eval("BSub", a, b, 0, 0)

\* a times a single limb-sized factor 0 <= k < LimbBase.
RECURSIVE BMulSmallAt(_, _, _, _)
BMulSmallAt(a, k, i, carry) ==
    IF i > Len(a)
    THEN IF carry = 0 THEN <<>> ELSE <<carry>>
    ELSE LET p == a[i] * k + carry
         IN  <<p % LimbBase>> \o BMulSmallAt(a, k, i + 1, p \div LimbBase)

BMulSmall(a, k) == Eval("BMulSmall", a, k, 0, 0)

BMulAt(a, b, j) == Eval("BMulAt", a, b, j, 0)

BMul(a, b) == Eval("BMul", a, b, 0, 0)

RECURSIVE IntBitLen(_)
IntBitLen(n) == IF n = 0 THEN 0 ELSE 1 + IntBitLen(n \div 2)

BBitLen(a) == Eval("BBitLen", a, 0, 0, 0)

\* a * 2^k
BShl(a, k) == Eval("BShl", a, k, 0, 0)

\* floor(a / 2^k)
RECURSIVE BShrBitsAt(_, _, _)
BShrBitsAt(a, r, i) ==
    IF i > Len(a) THEN <<>>
    ELSE <<(a[i] \div Pow2(r)) + (Limb(a, i + 1) % Pow2(r)) * Pow2(LimbBits - r)>>
         \o BShrBitsAt(a, r, i + 1)

BShr(a, k) == Eval("BShr", a, k, 0, 0)

\* Long division in base LimbBase (Knuth's algorithm D, simplified).  The
\* divisor b has its top limb >= LimbBase / 2 and r < b * LimbBase, so the
\* estimate from the top limbs is at most a few units below the quotient
\* digit; BDivFix raises it to the digit.
BDivFix(q, r, b) == Eval("BDivFix", q, r, b, 0)

BDivDigit(r, b) == Eval("BDivDigit", r, b, 0, 0)

\* One more quotient limb: the remainder st.r with the next limb of the
\* dividend below it is divided by b.
BDivStep(st, limb, b) == Eval("BDivStep", st, limb, b, 0)

\* Limbs j..Len(a) of a divided by b: the quotient so far (little-endian)
\* and the running remainder.  The top Len(b) - 1 limbs of a are below b and
\* start the remainder.
RECURSIVE BDivLimbs(_, _, _)
BDivLimbs(a, b, j) ==
    IF j > Len(a) - Len(b) + 1 THEN [q |-> <<>>, r |-> BNorm(SubSeq(a, j, Len(a)))]
    ELSE BDivStep(BDivLimbs(a, b, j + 1), a[j], b)

\* Quotient and remainder of a by b > 0.  Both are first scaled by the power
\* of two that brings the top limb of b to at least LimbBase / 2, which
\* leaves the quotient unchanged and scales the remainder.
BDivMod(a, b) == Eval("BDivMod", a, b, 0, 0)

\* Integer square root of an integer below 2^30, bit by bit.
RECURSIVE IntSqrtAt(_, _, _)
IntSqrtAt(t, bit, s) ==
    IF bit < 0 THEN s
    ELSE IF (s + Pow2(bit)) * (s + Pow2(bit)) <= t
         THEN IntSqrtAt(t, bit - 1, s + Pow2(bit))
         ELSE IntSqrtAt(t, bit - 1, s)

IntSqrt(t) == Eval("IntSqrt", t, 0, 0, 0)

\* Newton's iteration for the integer square root, from an x above it: the
\* iterates decrease until they reach floor(sqrt(a)).
RECURSIVE BSqrtNewton(_, _)
BSqrtNewton(a, x) ==
    LET y == BShr(BAdd(x, BDivMod(a, x).q), 1)
    IN  IF BCmp(y, x) >= 0 THEN x ELSE BSqrtNewton(a, y)

\* The largest s with s * s <= a.  The first iterate comes from the square
\* root of the top 30 bits of a, rounded up.
BSqrt(a) == Eval("BSqrt", a, 0, 0, 0)

\* The binary64 value nearest to s * (q + f) * 2^e, where 0 <= f < 1 and
\* sticky says that f > 0 (then q has more than 54 bits); ties go to even.
RoundBig(s, q, sticky, e) == Eval("RoundBig", s, q, sticky, e)

FromInt(n) == Eval("FromInt", n, 0, 0, 0)

FNeg(a) == Eval("FNeg", a, 0, 0, 0)

FAbs(a) == Eval("FAbs", a, 0, 0, 0)

\* -1, 0, 1 as a < b, a = b, a > b, for a and b not NaN.
FCmpMag(a, b) == Eval("FCmpMag", a, b, 0, 0)

FCmp(a, b) == Eval("FCmp", a, b, 0, 0)

\* Comparisons with a NaN operand are false, as in IEEE arithmetic.
FLt(a, b) == Eval("FLt", a, b, 0, 0)

FLe(a, b) == Eval("FLe", a, b, 0, 0)

FEq(a, b) == Eval("FEq", a, b, 0, 0)

FMin(a, b) == Eval("FMin", a, b, 0, 0)

FMax(a, b) == Eval("FMax", a, b, 0, 0)

FAdd(a, b) == Eval("FAdd", a, b, 0, 0)

FSub(a, b) == Eval("FSub", a, b, 0, 0)

FMul(a, b) == Eval("FMul", a, b, 0, 0)

\* Division as numpy's float64 divides: x/0 is an infinity and 0/0 is NaN.
\* (Python's own float and int division raises ZeroDivisionError instead;
\* the callers below say which of the two a division is.)
FDiv(a, b) == Eval("FDiv", a, b, 0, 0)

\* np.sqrt: correctly rounded, NaN for a negative argument.
FSqrt(a) == Eval("FSqrt", a, 0, 0, 0)

\* The integer np.ceil(a) for a finite a.
FCeilInt(a) == Eval("FCeilInt", a, 0, 0, 0)

\* The float a decimal literal n/d denotes (n and d small integers): the
\* binary64 value nearest to n/d.
Dec(n, d) == Eval("Dec", n, d, 0, 0)

\* The integer nearest to |a| * k, ties to the even one, for a finite a and
\* 0 < k < LimbBase.
FRoundScaled(a, k) == Eval("FRoundScaled", a, k, 0, 0)

One == FromInt(1)

Two == FromInt(2)

Four == FromInt(4)

(***************************************************************************)
(* The outcome of an invocation: a returned value or a raised exception.   *)
(***************************************************************************)
Return(v) == [kind |-> "return", exc |-> "", val |-> v]

Raise(x) == [kind |-> "raise", exc |-> x, val |-> <<>>]

(***************************************************************************)
(* models/experiment.py: ExperimentParams                                  *)
(***************************************************************************)
FieldNames == {"alpha", "power", "mde", "baseline_rate"}

ExperimentParams(alpha, power, mde, baseline_rate) ==
    [alpha |-> alpha, power |-> power, mde |-> mde,
     baseline_rate |-> baseline_rate]

\* errors[key] = msg on a dictionary.
Put(errors, key, msg) == Eval("Put", <<errors, key, msg>>, 0, 0, 0)

\* The chained comparison 0 < x < 1.
Between01(x) == Eval("Between01", <<x>>, 0, 0, 0)

\* validate as it would be if it stopped at the first invalid field.
validate_first_error(self) ==
    LET e0 == [x \in {} |-> ""]
    IN  IF ~Between01(self.alpha)
        THEN Return(Put(e0, "alpha", "Alpha must be between 0 and 1"))
        ELSE IF ~Between01(self.power)
        THEN Return(Put(e0, "power", "Power must be between 0 and 1"))
        ELSE IF ~Between01(self.mde)
        THEN Return(Put(e0, "mde", "MDE must be between 0 and 1"))
        ELSE IF ~Between01(self.baseline_rate)
        THEN Return(Put(e0, "baseline_rate", "Baseline rate must be between 0 and 1"))
        ELSE Return(e0)

validate(self) == Eval("validate", <<self>>, 0, 0, 0)

(***************************************************************************)
(* stats/experiment_duration.py                                            *)
(***************************************************************************)
\* scipy.stats.norm.ppf at the probabilities the model uses, to binary64
\* precision; the table is keyed by the probability in thousandths.
norm_ppf(p) == Eval("norm_ppf", <<p>>, 0, 0, 0)

\* int(np.ceil(x)): a NaN or an infinity cannot be converted.
IntCeil(x) == Eval("IntCeil", <<x>>, 0, 0, 0)

\* raw_sample_size as it would be if z_beta were that of a power of 0.8
\* whatever the power asked for.
raw_sample_size_fixed_power(baseline_rate, minimum_detectable_effect, power, significance_level, hypothesis_type) ==
    Eval("raw_sample_size",
         <<baseline_rate, minimum_detectable_effect, Dec(8, 10),
           significance_level, hypothesis_type>>, 0, 0, 0)

\* The unrounded per-variant sample size, sample_size of the source.
raw_sample_size(baseline_rate, minimum_detectable_effect, power, significance_level, hypothesis_type) == Eval("raw_sample_size", <<baseline_rate, minimum_detectable_effect, power, significance_level, hypothesis_type>>, 0, 0, 0)

\* calculate_sample_size as it would be if it rounded up to a multiple of
\* 1000, as the effect-size path does.
calculate_sample_size_thousand(baseline_rate, minimum_detectable_effect, power, significance_level, hypothesis_type) ==
    Eval("round_up_thousand",
         <<Eval("raw_sample_size",
                <<baseline_rate, minimum_detectable_effect, power,
                  significance_level, hypothesis_type>>, 0, 0, 0)>>, 0, 0, 0)

calculate_sample_size(baseline_rate, minimum_detectable_effect, power, significance_level, hypothesis_type) == Eval("calculate_sample_size", <<baseline_rate, minimum_detectable_effect, power, significance_level, hypothesis_type>>, 0, 0, 0)

\* inflated_total as it would be if the adjustment factor were inverted,
\* 4 ratio / (1 + ratio)^2.
inflated_total_inverted(sample_size_per_variant, control_ratio) ==
    LET rest == FSub(One, control_ratio)
        ratio == FDiv(FMin(control_ratio, rest), FMax(control_ratio, rest))
        opr == FAdd(One, ratio)
    IN  IntCeil(FMul(FromInt(sample_size_per_variant * 2),
                     FDiv(FMul(Four, ratio), FMul(opr, opr))))

\* inflated_total as it would be if ratio were control_ratio itself, not the
\* smaller share over the larger.
inflated_total_of_control_ratio(sample_size_per_variant, control_ratio) ==
    LET opr == FAdd(One, control_ratio)
    IN  IntCeil(FMul(FromInt(sample_size_per_variant * 2),
                     FDiv(FMul(opr, opr), FMul(Four, control_ratio))))

\* total_sample_size of an unbalanced design: the balanced total times the
\* adjustment factor (1 + ratio)^2 / (4 ratio), rounded up.
inflated_total(sample_size_per_variant, control_ratio) == Eval("inflated_total", <<sample_size_per_variant, control_ratio>>, 0, 0, 0)

\* total_for as it would be if the balanced branch counted one arm only.
total_for_one_arm(sample_size_per_variant, control_ratio) ==
    IF FEq(control_ratio, Dec(1, 2))
    THEN Return(sample_size_per_variant)
    ELSE inflated_total(sample_size_per_variant, control_ratio)

\* total_for as it would be without the adjustment for unequal allocation.
total_for_unadjusted(sample_size_per_variant, control_ratio) ==
    Return(sample_size_per_variant * 2)

\* total_sample_size from the per-variant size and the control ratio.
total_for(sample_size_per_variant, control_ratio) == Eval("total_for", <<sample_size_per_variant, control_ratio>>, 0, 0, 0)

\* days_required_for as it would be without the guard on the traffic.
days_required_unguarded(total_sample_size, daily_experiment_traffic) ==
    IF IsZero(daily_experiment_traffic) THEN Raise("ZeroDivisionError")
    ELSE Return(FDiv(FromInt(total_sample_size), daily_experiment_traffic))

\* days_required: the total over the daily experiment traffic, or infinity
\* when no traffic reaches the experiment.
days_required_for(total_sample_size, daily_experiment_traffic) == Eval("days_required_for", <<total_sample_size, daily_experiment_traffic>>, 0, 0, 0)

\* arm_size as it would be if the share were truncated, not rounded up.
arm_size_truncated(total_sample_size, share) ==
    LET x == FMul(FromInt(total_sample_size), share)
        c == IntCeil(x)
    IN  IF c.kind = "raise" \/ FEq(x, FromInt(c.val)) THEN c
        ELSE Return(c.val - 1)

\* int(np.ceil(total_sample_size * share)) of one arm.
arm_size(total_sample_size, share) == Eval("arm_size", <<total_sample_size, share>>, 0, 0, 0)

\* calculate_experiment_duration once the per-variant size n is known.
duration_from(n, daily_traffic, traffic_allocation, control_ratio) == Eval("duration_from", <<n, daily_traffic, traffic_allocation, control_ratio>>, 0, 0, 0)

calculate_experiment_duration(baseline_rate, minimum_detectable_effect, daily_traffic, traffic_allocation, control_ratio, power, significance_level, hypothesis_type) == Eval("calculate_experiment_duration", <<baseline_rate, minimum_detectable_effect, daily_traffic, traffic_allocation, control_ratio, power, significance_level, hypothesis_type>>, 0, 0, 0)

\* traffic_row as it would be if the allocation were kept as a fraction.
traffic_row_fraction(traffic_alloc, duration_info) ==
    [traffic_allocation |-> traffic_alloc,
     days_required |-> duration_info.days_required,
     daily_experiment_traffic |-> duration_info.daily_experiment_traffic,
     total_sample_size |-> duration_info.total_sample_size]

\* The row generate_duration_vs_traffic_data appends for one allocation.
traffic_row(traffic_alloc, duration_info) == Eval("traffic_row", <<traffic_alloc, duration_info>>, 0, 0, 0)

\* The row generate_duration_vs_mde_data appends for one effect.
mde_row(mde, duration_info) == Eval("mde_row", <<mde, duration_info>>, 0, 0, 0)

\* A sweep run to its end: the first failure of an iteration propagates,
\* otherwise the rows in the order of the range make the DataFrame.
sweep_outcome(infos, rows) == Eval("sweep_outcome", <<infos, rows>>, 0, 0, 0)

\* traffic_allocation_range is always passed: the default range is not drawn.
generate_duration_vs_traffic_data(baseline_rate, minimum_detectable_effect, daily_traffic, traffic_allocation_range, control_ratio, power, significance_level, hypothesis_type) == Eval("generate_duration_vs_traffic_data", <<baseline_rate, minimum_detectable_effect, daily_traffic, traffic_allocation_range, control_ratio, power, significance_level, hypothesis_type>>, 0, 0, 0)

generate_duration_vs_mde_data(baseline_rate, mde_range, daily_traffic, traffic_allocation, control_ratio, power, significance_level, hypothesis_type) == Eval("generate_duration_vs_mde_data", <<baseline_rate, mde_range, daily_traffic, traffic_allocation, control_ratio, power, significance_level, hypothesis_type>>, 0, 0, 0)

\* round_up_thousand as it would be if it rounded to the nearest thousand.
round_nearest_thousand(n_per_group) ==
    LET c == FAdd(FDiv(n_per_group, FromInt(1000)), Dec(1, 2))
    IN  IF IsNaN(c) THEN Raise("ValueError")
        ELSE IF IsInf(c) THEN Raise("OverflowError")
        ELSE LET up == FCeilInt(c)
                 k == IF FEq(c, FromInt(up)) THEN up ELSE up - 1
             IN  Return(k * 1000)

\* int(np.ceil(n_per_group / 1000.0) * 1000).
round_up_thousand(n_per_group) == Eval("round_up_thousand", <<n_per_group>>, 0, 0, 0)

\* calculate_sample_size(params) of the effect-size path.  The two statsmodels
\* calls are outside the repository: lib.effect_size is the value returned by
\* proportion_effectsize for params.baseline_rate and treatment_rate(params),
\* and lib.n_per_group the one returned by tt_ind_solve_power.
sample_size_calculate_sample_size(params, lib) == Eval("sample_size_calculate_sample_size", <<params, lib>>, 0, 0, 0)

\* np.arange(start, stop, step) on integers: start, start + step, ... as long
\* as the value is before stop.
np_arange(start, stop, step) == Eval("np_arange", <<start, stop, step>>, 0, 0, 0)

\* calculate_power_curve.  TTestIndPower().power is outside the repository:
\* lib.power[n] is the value it returns for nobs = n with the effect size and
\* the alpha of params.
calculate_power_curve(params, min_samples, max_samples, step, lib) == Eval("calculate_power_curve", <<params, min_samples, max_samples, step, lib>>, 0, 0, 0)

(***************************************************************************)
(* stats/hypothesis_testing.py                                             *)
(***************************************************************************)
Half == Dec(1, 2)

\* The coefficients c1..c4 of the approximation below.
CdfC ==
    <<Dec(196854, 1000000), Dec(115194, 1000000), Dec(344, 1000000), Dec(19527, 1000000)>>

\* The upper tail of the standard normal law at z >= 0, by the rational
\* approximation 0.5 * (1 + c1 z + c2 z^2 + c3 z^3 + c4 z^4)^-4, which is
\* within 2.5e-4 of the true value and equals 0.5 at z = 0.
NormTail(z) == Eval("NormTail", <<z>>, 0, 0, 0)

\* scipy.stats.norm.cdf.
norm_cdf(z) == Eval("norm_cdf", <<z>>, 0, 0, 0)

Alternatives == {"two-sided", "larger", "smaller"}

\* z_p_value as it would be if every test were the upper-tailed one.
z_p_value_upper(z_stat, alternative) == FSub(One, norm_cdf(z_stat))

\* The p-value of the z statistic under the alternative.
z_p_value(z_stat, alternative) == Eval("z_p_value", <<z_stat, alternative>>, 0, 0, 0)

\* pooled_z as it would be if it were oriented control minus treatment.
pooled_z_control_minus_treatment(successes_c, size_c, successes_t, size_t) ==
    Eval("pooled_z", <<successes_t, size_t, successes_c, size_c>>, 0, 0, 0)

\* The pooled two-proportion z statistic; the sizes are not zero here.
pooled_z(successes_c, size_c, successes_t, size_t) == Eval("pooled_z", <<successes_c, size_c, successes_t, size_t>>, 0, 0, 0)

\* is_significant as it would be with <= for <.
is_significant_inclusive(p_value, alpha) == FLe(p_value, alpha)

\* significant = p_value < alpha.
is_significant(p_value, alpha) == Eval("is_significant", <<p_value, alpha>>, 0, 0, 0)

\* proportion_test as it would be if relative_difference were a ratio, not a
\* percentage.
proportion_test_relative_ratio(control_successes, control_size, treatment_successes, treatment_size, confidence_level, alternative) ==
    LET r == Eval("proportion_test",
                  <<control_successes, control_size, treatment_successes,
                    treatment_size, confidence_level, alternative>>, 0, 0, 0)
    IN  IF r.kind = "return" /\ control_successes > 0
        THEN Return([r.val EXCEPT !.relative_difference =
                                      FDiv(r.val.difference, r.val.control_metric)])
        ELSE r

\* proportion_test as it would be if a one-sided test reported a one-sided
\* interval.
proportion_test_one_sided_interval(control_successes, control_size, treatment_successes, treatment_size, confidence_level, alternative) ==
    LET r == Eval("proportion_test",
                  <<control_successes, control_size, treatment_successes,
                    treatment_size, confidence_level, alternative>>, 0, 0, 0)
    IN  IF r.kind = "return" /\ alternative = "larger"
        THEN Return([r.val EXCEPT !.confidence_interval =
                                      <<r.val.confidence_interval[1], Inf(1)>>])
        ELSE r

proportion_test(control_successes, control_size, treatment_successes, treatment_size, confidence_level, alternative) == Eval("proportion_test", <<control_successes, control_size, treatment_successes, treatment_size, confidence_level, alternative>>, 0, 0, 0)

\* is_statistically_significant as it would be if it returned the flag stored
\* in the result.
is_statistically_significant_stored(test_result, alpha) == test_result.significant

\* return test_result.p_value < alpha
is_statistically_significant(test_result, alpha) == is_significant(test_result.p_value, alpha)

SumSeq(x) == Eval("SumSeq", <<x>>, 0, 0, 0)

\* np.mean: the mean of no values is NaN.
np_mean(x) == Eval("np_mean", <<x>>, 0, 0, 0)

SumSqDev(x, m) == Eval("SumSqDev", <<x, m>>, 0, 0, 0)

\* np.var(x, ddof=1).
np_var(x) == Eval("np_var", <<x>>, 0, 0, 0)

\* The standard error of the difference of the two means.
mean_se(n1, var1, n2, var2, equal_var) == Eval("mean_se", <<n1, var1, n2, var2, equal_var>>, 0, 0, 0)

\* The statistic of scipy.stats.ttest_ind(a, b, equal_var).
ttest_statistic(a, b, equal_var) == Eval("ttest_statistic", <<a, b, equal_var>>, 0, 0, 0)

\* mean_test.  The t distribution is outside the repository: lib.statistic
\* and lib.pvalue are what ttest_ind returns and lib.t_critical is the
\* quantile stats.t.ppf returns.
mean_test(control_data, treatment_data, confidence_level, alternative, equal_var, lib) == Eval("mean_test", <<control_data, treatment_data, confidence_level, alternative, equal_var, lib>>, 0, 0, 0)

(***************************************************************************)
(* stats/validation.py                                                     *)
(***************************************************************************)
\* aa_passed as it would be with > for >=.
aa_passed_strict(p_value, alpha) == FLt(alpha, p_value)

\* passed = p_value >= alpha.
aa_passed(p_value, alpha) == Eval("aa_passed", <<p_value, alpha>>, 0, 0, 0)

\* Python's None, the default of warning_message.
None == "None"

\* ValidationResult as it would be if the warning were always set.
ValidationResult_always_warns(test_type, p_value, statistic, passed, message) ==
    [test_type |-> test_type, p_value |-> p_value, statistic |-> statistic,
     passed |-> passed, warning_message |-> message]

\* warning_message = None; if not passed: warning_message = message.
ValidationResult(test_type, p_value, statistic, passed, message) ==
    [test_type |-> test_type, p_value |-> p_value, statistic |-> statistic,
     passed |-> passed,
     warning_message |-> IF passed THEN None ELSE message]

\* The decimal digits of n, padded with zeros on the left to w digits.
Pad(n, w) == Eval("Pad", <<n, w>>, 0, 0, 0)

\* 10^d
Pow10(d) == Eval("Pow10", <<d>>, 0, 0, 0)

\* Fmt as it would be if the digits beyond the d-th were cut off.
Fmt_truncated(x, d) ==
    IF IsNaN(x) THEN "nan"
    ELSE IF IsInf(x) THEN (IF x.s < 0 THEN "-inf" ELSE "inf")
    ELSE LET k == Pow10(d)
             h == -FCeilInt(FNeg(FMul(FAbs(x), FromInt(k))))
         IN  (IF x.s < 0 /\ ~IsZero(x) THEN "-" ELSE "")
                 \o ToString(h \div k) \o "." \o Pad(h % k, d)

\* The format specification .{d}f of an f-string applied to the float x:
\* the exact value of x rounded to d decimals, ties to even.
Fmt(x, d) == Eval("Fmt", <<x, d>>, 0, 0, 0)

\* The statistic of scipy.stats.chisquare(observed, expected) for two
\* categories: the sum of (observed - expected)^2 / expected.
chisquare_statistic(observed, expected) == Eval("chisquare_statistic", <<observed, expected>>, 0, 0, 0)

\* The p-value of scipy.stats.chisquare with one degree of freedom: the upper
\* tail of the chi-square law at stat, which is twice the upper tail of the
\* standard normal law at sqrt(stat); it is 1 at stat = 0.
chi2_sf(stat) == Eval("chi2_sf", <<stat>>, 0, 0, 0)

\* The warning of a failed sample_ratio_mismatch.
srm_message(p_value, expected_ratio, control_size, treatment_size) == Eval("srm_message", <<p_value, expected_ratio, control_size, treatment_size>>, 0, 0, 0)

sample_ratio_mismatch(control_size, treatment_size, expected_ratio, alpha) == Eval("sample_ratio_mismatch", <<control_size, treatment_size, expected_ratio, alpha>>, 0, 0, 0)

\* The warning of a failed aa_test; what is "" on the binary branch and
\* " mean" on the continuous one.
aa_message(p_value, control, treatment, what) == Eval("aa_message", <<p_value, control, treatment, what>>, 0, 0, 0)

\* aa_test.  lib.statistic and lib.pvalue are what ttest_ind returns on the
\* continuous branch.
aa_test(control_group, treatment_group, alpha, metric_type, lib) == Eval("aa_test", <<control_group, treatment_group, alpha, metric_type, lib>>, 0, 0, 0)

(***************************************************************************)
(* experiment.py: the bodies of its operations; xs holds the arguments in the*)
(* order of the parameters.                                                *)
(***************************************************************************)
experiment_py(f, xs) ==
    CASE f = "Put" ->
           LET errors == xs[1]
               key    == xs[2]
               msg    == xs[3]
           IN  (
               [x \in DOMAIN errors \cup {key} |-> IF x = key THEN msg ELSE errors[x]]
               )
      [] f = "Between01" ->
           LET x == xs[1]
           IN  (
               FLt(Zero, x) /\ FLt(x, One)
               )
      [] f = "validate" ->
           LET self == xs[1]
           IN  (
               LET e0 == [x \in {} |-> ""]
                   e1 == IF ~Between01(self.alpha)
                         THEN Put(e0, "alpha", "Alpha must be between 0 and 1") ELSE e0
                   e2 == IF ~Between01(self.power)
                         THEN Put(e1, "power", "Power must be between 0 and 1") ELSE e1
                   e3 == IF ~Between01(self.mde)
                         THEN Put(e2, "mde", "MDE must be between 0 and 1") ELSE e2
                   e4 == IF ~Between01(self.baseline_rate)
                         THEN Put(e3, "baseline_rate", "Baseline rate must be between 0 and 1")
                         ELSE e3
               IN  Return(e4)
               )

(***************************************************************************)
(* experiment_duration.py: the bodies of its operations; xs holds the arguments in the*)
(* order of the parameters.                                                *)
(***************************************************************************)
experiment_duration_py(f, xs) ==
    CASE f = "norm_ppf" ->
           LET p == xs[1]
           IN  (
               LET key == FCeilInt(FSub(FMul(p, FromInt(1000)), Dec(1, 2)))
               IN  CASE key = 800 -> Fin(1, <<4916, 20084, 14910, 215>>, -53)
                     [] key = 900 -> Fin(1, <<27954, 28100, 1264, 164>>, -52)
                     [] key = 950 -> Fin(1, <<27323, 4814, 17736, 210>>, -52)
                     [] key = 975 -> Fin(1, <<32644, 25565, 28684, 250>>, -52)
                     [] key = 990 -> Fin(1, <<32526, 3169, 29041, 148>>, -51)
                     [] key = 995 -> Fin(1, <<4448, 18861, 27953, 164>>, -51)
               )
      [] f = "IntCeil" ->
           LET x == xs[1]
           IN  (
               IF IsNaN(x) THEN Raise("ValueError")
               ELSE IF IsInf(x) THEN Raise("OverflowError")
               ELSE Return(FCeilInt(x))
               )
      [] f = "raw_sample_size" ->
           LET baseline_rate             == xs[1]
               minimum_detectable_effect == xs[2]
               power                     == xs[3]
               significance_level        == xs[4]
               hypothesis_type           == xs[5]
           IN  (
               LET absolute_effect == FMul(baseline_rate, minimum_detectable_effect)
                   treatment_rate == FAdd(baseline_rate, absolute_effect)
                   z_alpha == IF hypothesis_type = "two-sided"
                              THEN norm_ppf(FSub(One, FDiv(significance_level, Two)))
                              ELSE norm_ppf(FSub(One, significance_level))
                   z_beta == norm_ppf(power)
                   se0 == FSqrt(FMul(FMul(Two, baseline_rate), FSub(One, baseline_rate)))
                   se1 == FSqrt(FAdd(FMul(baseline_rate, FSub(One, baseline_rate)),
                                     FMul(treatment_rate, FSub(One, treatment_rate))))
                   x == FDiv(FAdd(FMul(z_alpha, se0), FMul(z_beta, se1)), absolute_effect)
               IN  FMul(x, x)
               )
      [] f = "calculate_sample_size" ->
           LET baseline_rate             == xs[1]
               minimum_detectable_effect == xs[2]
               power                     == xs[3]
               significance_level        == xs[4]
               hypothesis_type           == xs[5]
           IN  (
               IntCeil(raw_sample_size(baseline_rate, minimum_detectable_effect, power,
                                       significance_level, hypothesis_type))
               )
      [] f = "inflated_total" ->
           LET sample_size_per_variant == xs[1]
               control_ratio           == xs[2]
           IN  (
               LET rest == FSub(One, control_ratio)
                   hi == FMax(control_ratio, rest)
                   ratio == FDiv(FMin(control_ratio, rest), hi)
                   opr == FAdd(One, ratio)
                   den == FMul(Four, ratio)
                   adjustment_factor == FDiv(FMul(opr, opr), den)
               IN  IF IsZero(hi) \/ IsZero(den) THEN Raise("ZeroDivisionError")
                   ELSE IntCeil(FMul(FromInt(sample_size_per_variant * 2),
                                     adjustment_factor))
               )
      [] f = "total_for" ->
           LET sample_size_per_variant == xs[1]
               control_ratio           == xs[2]
           IN  (
               IF FEq(control_ratio, Dec(1, 2))
               THEN Return(sample_size_per_variant * 2)
               ELSE inflated_total(sample_size_per_variant, control_ratio)
               )
      [] f = "days_required_for" ->
           LET total_sample_size        == xs[1]
               daily_experiment_traffic == xs[2]
           IN  (
               IF FLt(Zero, daily_experiment_traffic)
               THEN Return(FDiv(FromInt(total_sample_size), daily_experiment_traffic))
               ELSE Return(Inf(1))
               )
      [] f = "arm_size" ->
           LET total_sample_size == xs[1]
               share             == xs[2]
           IN  (
               IntCeil(FMul(FromInt(total_sample_size), share))
               )
      [] f = "duration_from" ->
           LET n                  == xs[1]
               daily_traffic      == xs[2]
               traffic_allocation == xs[3]
               control_ratio      == xs[4]
           IN  (
               LET total == total_for(n.val, control_ratio)
                   total_sample_size == total.val
                   daily_experiment_traffic == FMul(FromInt(daily_traffic), traffic_allocation)
                   days_required == days_required_for(total_sample_size,
                                                      daily_experiment_traffic)
                   control_sample == arm_size(total_sample_size, control_ratio)
                   treatment_sample == arm_size(total_sample_size, FSub(One, control_ratio))
               IN  IF n.kind = "raise" THEN n
                   ELSE IF total.kind = "raise" THEN total
                   ELSE IF days_required.kind = "raise" THEN days_required
                   ELSE IF control_sample.kind = "raise" THEN control_sample
                   ELSE IF treatment_sample.kind = "raise" THEN treatment_sample
                   ELSE Return([total_sample_size |-> total_sample_size,
                                control_sample_size |-> control_sample.val,
                                treatment_sample_size |-> treatment_sample.val,
                                days_required |-> days_required.val,
                                daily_experiment_traffic |-> daily_experiment_traffic])
               )
      [] f = "calculate_experiment_duration" ->
           LET baseline_rate             == xs[1]
               minimum_detectable_effect == xs[2]
               daily_traffic             == xs[3]
               traffic_allocation        == xs[4]
               control_ratio             == xs[5]
               power                     == xs[6]
               significance_level        == xs[7]
               hypothesis_type           == xs[8]
           IN  (
               duration_from(calculate_sample_size(baseline_rate, minimum_detectable_effect,
                                                   power, significance_level, hypothesis_type),
                             daily_traffic, traffic_allocation, control_ratio)
               )
      [] f = "traffic_row" ->
           LET traffic_alloc == xs[1]
               duration_info == xs[2]
           IN  (
               [traffic_allocation |-> FMul(traffic_alloc, FromInt(100)),
                days_required |-> duration_info.days_required,
                daily_experiment_traffic |-> duration_info.daily_experiment_traffic,
                total_sample_size |-> duration_info.total_sample_size]
               )
      [] f = "mde_row" ->
           LET mde           == xs[1]
               duration_info == xs[2]
           IN  (
               [minimum_detectable_effect |-> FMul(mde, FromInt(100)),
                days_required |-> duration_info.days_required,
                total_sample_size |-> duration_info.total_sample_size]
               )
      [] f = "sweep_outcome" ->
           LET infos == xs[1]
               rows  == xs[2]
           IN  (
               LET failed == {i \in DOMAIN infos : infos[i].kind = "raise"}
               IN  IF failed # {}
                   THEN infos[CHOOSE i \in failed : \A j \in failed : i <= j]
                   ELSE Return(rows)
               )
      [] f = "generate_duration_vs_traffic_data" ->
           LET baseline_rate             == xs[1]
               minimum_detectable_effect == xs[2]
               daily_traffic             == xs[3]
               traffic_allocation_range  == xs[4]
               control_ratio             == xs[5]
               power                     == xs[6]
               significance_level        == xs[7]
               hypothesis_type           == xs[8]
           IN  (
               LET infos == [i \in DOMAIN traffic_allocation_range |->
                                calculate_experiment_duration(
                                    baseline_rate, minimum_detectable_effect, daily_traffic,
                                    traffic_allocation_range[i], control_ratio, power,
                                    significance_level, hypothesis_type)]
               IN  sweep_outcome(infos,
                                 [i \in DOMAIN infos |->
                                     IF infos[i].kind = "raise" THEN <<>>
                                     ELSE traffic_row(traffic_allocation_range[i], infos[i].val)])
               )
      [] f = "generate_duration_vs_mde_data" ->
           LET baseline_rate      == xs[1]
               mde_range          == xs[2]
               daily_traffic      == xs[3]
               traffic_allocation == xs[4]
               control_ratio      == xs[5]
               power              == xs[6]
               significance_level == xs[7]
               hypothesis_type    == xs[8]
           IN  (
               LET infos == [i \in DOMAIN mde_range |->
                                calculate_experiment_duration(
                                    baseline_rate, mde_range[i], daily_traffic,
                                    traffic_allocation, control_ratio, power,
                                    significance_level, hypothesis_type)]
               IN  sweep_outcome(infos,
                                 [i \in DOMAIN infos |->
                                     IF infos[i].kind = "raise" THEN <<>>
                                     ELSE mde_row(mde_range[i], infos[i].val)])
               )

(***************************************************************************)
(* sample_size.py: the bodies of its operations; xs holds the arguments in the*)
(* order of the parameters.                                                *)
(***************************************************************************)
sample_size_py(f, xs) ==
    CASE f = "round_up_thousand" ->
           LET n_per_group == xs[1]
           IN  (
               LET c == FDiv(n_per_group, FromInt(1000))
               IN  IF IsNaN(c) THEN Raise("ValueError")
                   ELSE IF IsInf(c) THEN Raise("OverflowError")
                   ELSE Return(FCeilInt(FMul(FromInt(FCeilInt(c)), FromInt(1000))))
               )
      [] f = "sample_size_calculate_sample_size" ->
           LET params == xs[1]
               lib    == xs[2]
           IN  (
               LET n_per_group_rounded == round_up_thousand(lib.n_per_group)
               IN  IF n_per_group_rounded.kind = "raise" THEN n_per_group_rounded
                   ELSE Return([effect_size |-> lib.effect_size,
                                sample_size_per_group |-> n_per_group_rounded.val,
                                total_sample_size |-> n_per_group_rounded.val * 2])
               )
      [] f = "np_arange" ->
           LET start == xs[1]
               stop  == xs[2]
               step  == xs[3]
           IN  (
               LET span == IF step > 0 THEN stop - start ELSE start - stop
                   size == IF step > 0 THEN step ELSE -step
                   count == IF span > 0 THEN (span + size - 1) \div size ELSE 0
               IN  IF step = 0 THEN Raise("ZeroDivisionError")
                   ELSE Return([i \in 1..count |-> start + (i - 1) * step])
               )
      [] f = "calculate_power_curve" ->
           LET params      == xs[1]
               min_samples == xs[2]
               max_samples == xs[3]
               step        == xs[4]
               lib         == xs[5]
           IN  (
               LET sample_sizes == np_arange(min_samples, max_samples + step, step)
               IN  IF sample_sizes.kind = "raise" THEN sample_sizes
                   ELSE Return([sample_sizes |-> sample_sizes.val,
                                power_values |-> [i \in DOMAIN sample_sizes.val |->
                                                     lib.power[sample_sizes.val[i]]]])
               )

(***************************************************************************)
(* hypothesis_testing.py: the bodies of its operations; xs holds the arguments in the*)
(* order of the parameters.                                                *)
(***************************************************************************)
hypothesis_testing_py(f, xs) ==
    CASE f = "NormTail" ->
           LET z == xs[1]
           IN  (
               LET z2 == FMul(z, z)
                   t == FAdd(FAdd(FAdd(FAdd(One, FMul(CdfC[1], z)), FMul(CdfC[2], z2)),
                                  FMul(CdfC[3], FMul(z2, z))), FMul(CdfC[4], FMul(z2, z2)))
                   t2 == FMul(t, t)
               IN  FDiv(Half, FMul(t2, t2))
               )
      [] f = "norm_cdf" ->
           LET z == xs[1]
           IN  (
               IF IsNaN(z) THEN NaN
               ELSE IF IsInf(z) THEN (IF z.s = 1 THEN One ELSE Zero)
               ELSE IF z.s = 1 THEN FSub(One, NormTail(z))
               ELSE NormTail(FNeg(z))
               )
      [] f = "z_p_value" ->
           LET z_stat      == xs[1]
               alternative == xs[2]
           IN  (
               CASE alternative = "two-sided" ->
                        FMul(Two, FSub(One, norm_cdf(FAbs(z_stat))))
                 [] alternative = "larger" -> FSub(One, norm_cdf(z_stat))
                 [] alternative = "smaller" -> norm_cdf(z_stat)
               )
      [] f = "pooled_z" ->
           LET successes_c == xs[1]
               size_c      == xs[2]
               successes_t == xs[3]
               size_t      == xs[4]
           IN  (
               LET p_control == FDiv(FromInt(successes_c), FromInt(size_c))
                   p_treatment == FDiv(FromInt(successes_t), FromInt(size_t))
                   p_pooled == FDiv(FromInt(successes_c + successes_t),
                                    FromInt(size_c + size_t))
                   se == FSqrt(FMul(FMul(p_pooled, FSub(One, p_pooled)),
                                    FAdd(FDiv(One, FromInt(size_c)),
                                         FDiv(One, FromInt(size_t)))))
               IN  FDiv(FSub(p_treatment, p_control), se)
               )
      [] f = "is_significant" ->
           LET p_value == xs[1]
               alpha   == xs[2]
           IN  (
               FLt(p_value, alpha)
               )
      [] f = "proportion_test" ->
           LET control_successes   == xs[1]
               control_size        == xs[2]
               treatment_successes == xs[3]
               treatment_size      == xs[4]
               confidence_level    == xs[5]
               alternative         == xs[6]
           IN  (
               IF control_size = 0 \/ treatment_size = 0 THEN Raise("ZeroDivisionError")
               ELSE IF alternative \notin Alternatives THEN Raise("ValueError")
               ELSE
               LET p_control == FDiv(FromInt(control_successes), FromInt(control_size))
                   p_treatment == FDiv(FromInt(treatment_successes), FromInt(treatment_size))
                   z_stat == pooled_z(control_successes, control_size,
                                      treatment_successes, treatment_size)
                   p_value == z_p_value(z_stat, alternative)
                   alpha == FSub(One, confidence_level)
                   z_critical == norm_ppf(FSub(One, FDiv(alpha, Two)))
                   se_diff == FSqrt(FAdd(FDiv(FMul(p_control, FSub(One, p_control)),
                                              FromInt(control_size)),
                                         FDiv(FMul(p_treatment, FSub(One, p_treatment)),
                                              FromInt(treatment_size))))
                   margin == FMul(z_critical, se_diff)
                   diff == FSub(p_treatment, p_control)
                   rel_diff == IF FLt(Zero, p_control)
                               THEN FMul(FDiv(diff, p_control), FromInt(100))
                               ELSE Inf(1)
               IN  Return([p_value |-> p_value,
                           statistic |-> z_stat,
                           control_metric |-> p_control,
                           treatment_metric |-> p_treatment,
                           difference |-> diff,
                           relative_difference |-> rel_diff,
                           confidence_interval |-> <<FSub(diff, margin), FAdd(diff, margin)>>,
                           significant |-> is_significant(p_value, alpha),
                           method |-> "proportion_z_test"])
               )
      [] f = "SumSeq" ->
           LET x == xs[1]
           IN  (
               IF x = <<>> THEN 0 ELSE x[1] + SumSeq(Tail(x))
               )
      [] f = "np_mean" ->
           LET x == xs[1]
           IN  (
               FDiv(FromInt(SumSeq(x)), FromInt(Len(x)))
               )
      [] f = "SumSqDev" ->
           LET x == xs[1]
               m == xs[2]
           IN  (
               IF x = <<>> THEN Zero
               ELSE LET d == FSub(FromInt(x[1]), m)
                    IN  FAdd(FMul(d, d), SumSqDev(Tail(x), m))
               )
      [] f = "np_var" ->
           LET x == xs[1]
           IN  (
               FDiv(SumSqDev(x, np_mean(x)), FromInt(Max2(Len(x) - 1, 0)))
               )
      [] f = "mean_se" ->
           LET n1        == xs[1]
               var1      == xs[2]
               n2        == xs[3]
               var2      == xs[4]
               equal_var == xs[5]
           IN  (
               IF equal_var
               THEN LET df == n1 + n2 - 2
                        pooled_var == FDiv(FAdd(FMul(FromInt(n1 - 1), var1),
                                                FMul(FromInt(n2 - 1), var2)), FromInt(df))
                    IN  FSqrt(FMul(pooled_var, FAdd(FDiv(One, FromInt(n1)),
                                                    FDiv(One, FromInt(n2)))))
               ELSE FSqrt(FAdd(FDiv(var1, FromInt(n1)), FDiv(var2, FromInt(n2))))
               )
      [] f = "ttest_statistic" ->
           LET a         == xs[1]
               b         == xs[2]
               equal_var == xs[3]
           IN  (
               FDiv(FSub(np_mean(a), np_mean(b)),
                    mean_se(Len(a), np_var(a), Len(b), np_var(b), equal_var))
               )
      [] f = "mean_test" ->
           LET control_data     == xs[1]
               treatment_data   == xs[2]
               confidence_level == xs[3]
               alternative      == xs[4]
               equal_var        == xs[5]
               lib              == xs[6]
           IN  (
               IF alternative \notin Alternatives THEN Raise("ValueError")
               ELSE IF equal_var /\ (Len(treatment_data) = 0 \/ Len(control_data) = 0)
               THEN Raise("ZeroDivisionError")
               ELSE
               LET t_stat == lib.statistic
                   p_value == lib.pvalue
                   control_mean == np_mean(control_data)
                   treatment_mean == np_mean(treatment_data)
                   alpha == FSub(One, confidence_level)
                   se == mean_se(Len(treatment_data), np_var(treatment_data),
                                 Len(control_data), np_var(control_data), equal_var)
                   diff == FSub(treatment_mean, control_mean)
                   margin == FMul(lib.t_critical, se)
                   rel_diff == IF ~FEq(control_mean, Zero)
                               THEN FMul(FDiv(diff, control_mean), FromInt(100))
                               ELSE Inf(1)
               IN  Return([p_value |-> p_value,
                           statistic |-> t_stat,
                           control_metric |-> control_mean,
                           treatment_metric |-> treatment_mean,
                           difference |-> diff,
                           relative_difference |-> rel_diff,
                           confidence_interval |-> <<FSub(diff, margin), FAdd(diff, margin)>>,
                           significant |-> is_significant(p_value, alpha),
                           method |-> "mean_t_test"])
               )

(***************************************************************************)
(* validation.py: the bodies of its operations; xs holds the arguments in the*)
(* order of the parameters.                                                *)
(***************************************************************************)
validation_py(f, xs) ==
    CASE f = "aa_passed" ->
           LET p_value == xs[1]
               alpha   == xs[2]
           IN  (
               FLe(alpha, p_value)
               )
      [] f = "aa_test" ->
           LET control_group   == xs[1]
               treatment_group == xs[2]
               alpha           == xs[3]
               metric_type     == xs[4]
               lib             == xs[5]
           IN  (
               IF metric_type = "binary"
               THEN IF Len(control_group) = 0 \/ Len(treatment_group) = 0
                    THEN Raise("ZeroDivisionError")
                    ELSE LET z_stat == pooled_z(SumSeq(control_group), Len(control_group),
                                                SumSeq(treatment_group), Len(treatment_group))
                             p_value == z_p_value(z_stat, "two-sided")
                             p_control == FDiv(FromInt(SumSeq(control_group)),
                                               FromInt(Len(control_group)))
                             p_treatment == FDiv(FromInt(SumSeq(treatment_group)),
                                                 FromInt(Len(treatment_group)))
                         IN  Return(ValidationResult("AA Test (Binary)", p_value, z_stat,
                                                     aa_passed(p_value, alpha),
                                                     aa_message(p_value, p_control,
                                                                p_treatment, "")))
               ELSE IF metric_type = "continuous"
               THEN Return(ValidationResult("AA Test (Continuous)", lib.pvalue,
                                            lib.statistic, aa_passed(lib.pvalue, alpha),
                                            aa_message(lib.pvalue,
                                                       np_mean(control_group),
                                                       np_mean(treatment_group),
                                                       " mean")))
               ELSE Raise("ValueError")
               )
      [] f = "aa_message" ->
           LET p_value   == xs[1]
               control   == xs[2]
               treatment == xs[3]
               what      == xs[4]
           IN  (
               "AA test failed (p-value = " \o Fmt(p_value, 4)
                   \o "). There may be an underlying difference between groups "
                   \o "(control" \o what \o ": " \o Fmt(control, 4)
                   \o ", treatment" \o what \o ": " \o Fmt(treatment, 4) \o ")."
               )
      [] f = "Pad" ->
           LET n == xs[1]
               w == xs[2]
           IN  (
               IF w = 0 THEN "" ELSE Pad(n \div 10, w - 1) \o ToString(n % 10)
               )
      [] f = "Pow10" ->
           LET d == xs[1]
           IN  (
               IF d = 0 THEN 1 ELSE 10 * Pow10(d - 1)
               )
      [] f = "Fmt" ->
           LET x == xs[1]
               d == xs[2]
           IN  (
               IF IsNaN(x) THEN "nan"
               ELSE IF IsInf(x) THEN (IF x.s < 0 THEN "-inf" ELSE "inf")
               ELSE LET k == Pow10(d)
                        h == FRoundScaled(x, k)
                    IN  (IF x.s < 0 /\ ~IsZero(x) THEN "-" ELSE "")
                            \o ToString(h \div k) \o "." \o Pad(h % k, d)
               )
      [] f = "chisquare_statistic" ->
           LET observed == xs[1]
               expected == xs[2]
           IN  (
               LET d1 == FSub(FromInt(observed[1]), expected[1])
                   d2 == FSub(FromInt(observed[2]), expected[2])
               IN  FAdd(FDiv(FMul(d1, d1), expected[1]),
                        FDiv(FMul(d2, d2), expected[2]))
               )
      [] f = "chi2_sf" ->
           LET stat == xs[1]
           IN  (
               IF IsNaN(stat) THEN NaN
               ELSE IF IsInf(stat) THEN Zero
               ELSE FMul(Two, NormTail(FSqrt(stat)))
               )
      [] f = "srm_message" ->
           LET p_value         == xs[1]
               expected_ratio  == xs[2]
               control_size    == xs[3]
               treatment_size  == xs[4]
           IN  (
               LET total_size == control_size + treatment_size
                   actual_ratio == FDiv(FromInt(treatment_size), FromInt(total_size))
               IN  "Sample Ratio Mismatch detected (p-value = " \o Fmt(p_value, 4)
                       \o "). Expected ratio: " \o Fmt(expected_ratio, 2)
                       \o ", Actual ratio: " \o Fmt(actual_ratio, 2)
                       \o ". Control size: " \o ToString(control_size)
                       \o ", Treatment size: " \o ToString(treatment_size) \o "."
               )
      [] f = "sample_ratio_mismatch" ->
           LET control_size    == xs[1]
               treatment_size  == xs[2]
               expected_ratio  == xs[3]
               alpha           == xs[4]
           IN  (
               LET total_size == control_size + treatment_size
                   expected_treatment == FMul(FromInt(total_size), expected_ratio)
                   expected_control == FMul(FromInt(total_size),
                                            FSub(One, expected_ratio))
                   chi2_stat == chisquare_statistic(
                                    <<control_size, treatment_size>>,
                                    <<expected_control, expected_treatment>>)
                   p_value == chi2_sf(chi2_stat)
                   passed == aa_passed(p_value, alpha)
               IN  IF ~passed /\ total_size = 0 THEN Raise("ZeroDivisionError")
                   ELSE Return(ValidationResult(
                            "Sample Ratio Mismatch", p_value, chi2_stat, passed,
                            srm_message(p_value, expected_ratio, control_size,
                                        treatment_size)))
               )

\* The body of operation f of the program, by the file that defines it.
Body(f, xs) ==
    IF f \in {"Put", "Between01", "validate"}
    THEN experiment_py(f, xs)
    ELSE IF f \in {"norm_ppf", "IntCeil", "raw_sample_size",
                    "calculate_sample_size", "inflated_total", "total_for",
                    "days_required_for", "arm_size", "duration_from",
                    "calculate_experiment_duration", "traffic_row", "mde_row",
                    "sweep_outcome", "generate_duration_vs_traffic_data",
                    "generate_duration_vs_mde_data"}
    THEN experiment_duration_py(f, xs)
    ELSE IF f \in {"round_up_thousand", "sample_size_calculate_sample_size",
                    "np_arange", "calculate_power_curve"}
    THEN sample_size_py(f, xs)
    ELSE IF f \in {"NormTail", "norm_cdf", "z_p_value", "pooled_z",
                    "is_significant", "proportion_test", "SumSeq", "np_mean",
                    "SumSqDev", "np_var", "mean_se", "ttest_statistic",
                    "mean_test"}
    THEN hypothesis_testing_py(f, xs)
    ELSE validation_py(f, xs)

(***************************************************************************)
(* Eval(f, x1, x2, x3, x4): operation f applied to its arguments.  The     *)
(* arithmetic is evaluated here; an operation of the program is handed to  *)
(* Body with its arguments in x1.  The arguments are evaluated before the  *)
(* body, as in a call by value: the comparison below is never true.        *)
(***************************************************************************)
Eval(f, x1, x2, x3, x4) ==
    IF <<x1, x2, x3, x4>> = <<>> THEN <<>> ELSE
    CASE f = "BMulSmall" ->  \* BMulSmall(a, k)
           (
            IF x2 = 0 THEN <<>> ELSE BMulSmallAt(x1, x2, 1, 0)
           )
      [] f = "BAdd" ->  \* BAdd(a, b)
           (
            BAddAt(x1, x2, 1, 0)
           )
      [] f = "BSub" ->  \* BSub(a, b)
           (
            BNorm(BSubAt(x1, x2, 1, 0))
           )
      [] f = "BCmp" ->  \* BCmp(a, b)
           (
            BCmpAt(x1, x2, Max2(Len(x1), Len(x2)))
           )
      [] f = "BShl" ->  \* BShl(a, k)
           (
            IF x1 = <<>> THEN <<>>
            ELSE Zeros(x2 \div LimbBits) \o BMulSmall(x1, Pow2(x2 % LimbBits))
           )
      [] f = "BShr" ->  \* BShr(a, k)
           (
            LET q == x2 \div LimbBits
                r == x2 % LimbBits
                dropped == IF q >= Len(x1) THEN <<>> ELSE SubSeq(x1, q + 1, Len(x1))
            IN  IF r = 0 THEN dropped ELSE BNorm(BShrBitsAt(dropped, r, 1))
           )
      [] f = "BMulAt" ->  \* BMulAt(a, b, j)
           (
            IF x3 > Len(x2) THEN <<>>
            ELSE LET row == BMulSmall(x1, x2[x3])
                     shifted == IF row = <<>> THEN <<>> ELSE Zeros(x3 - 1) \o row
                 IN  BAdd(shifted, BMulAt(x1, x2, x3 + 1))
           )
      [] f = "BMul" ->  \* BMul(a, b)
           (
            IF x1 = <<>> \/ x2 = <<>> THEN <<>> ELSE BMulAt(x1, x2, 1)
           )
      [] f = "BBitLen" ->  \* BBitLen(a)
           (
            IF x1 = <<>> THEN 0 ELSE LimbBits * (Len(x1) - 1) + IntBitLen(x1[Len(x1)])
           )
      [] f = "RoundBig" ->  \* RoundBig(s, q, sticky, e)
           (
            LET len == BBitLen(x2)
                k == len - 53
                hi == BShr(x2, k)
                c == BCmpHalf(x2, k)
                up == c > 0 \/ (c = 0 /\ (x3 \/ BIsOdd(hi)))
                hi2 == IF up THEN BAdd(hi, <<1>>) ELSE hi
            IN  IF x2 = <<>> THEN Zero
                ELSE IF k <= 0 THEN Fin(x1, BShl(x2, -k), x4 + k)
                ELSE IF BBitLen(hi2) = 54 THEN Fin(x1, BShr(hi2, 1), x4 + k + 1)
                ELSE Fin(x1, hi2, x4 + k)
           )
      [] f = "FCmp" ->  \* FCmp(a, b)
           (
            IF IsZero(x1) /\ IsZero(x2) THEN 0
            ELSE IF IsZero(x1) THEN -x2.s
            ELSE IF IsZero(x2) THEN x1.s
            ELSE IF x1.s # x2.s THEN x1.s
            ELSE x1.s * FCmpMag(x1, x2)
           )
      [] f = "FCmpMag" ->  \* FCmpMag(a, b)
           (
            IF IsZero(x1) /\ IsZero(x2) THEN 0
            ELSE IF IsZero(x1) THEN -1
            ELSE IF IsZero(x2) THEN 1
            ELSE IF IsInf(x1) /\ IsInf(x2) THEN 0
            ELSE IF IsInf(x1) THEN 1
            ELSE IF IsInf(x2) THEN -1
            ELSE IF x1.e # x2.e THEN (IF x1.e < x2.e THEN -1 ELSE 1)
            ELSE BCmp(x1.m, x2.m)
           )
      [] f = "FLt" ->  \* FLt(a, b)
           (
            ~IsNaN(x1) /\ ~IsNaN(x2) /\ FCmp(x1, x2) < 0
           )
      [] f = "FLe" ->  \* FLe(a, b)
           (
            ~IsNaN(x1) /\ ~IsNaN(x2) /\ FCmp(x1, x2) <= 0
           )
      [] f = "FEq" ->  \* FEq(a, b)
           (
            ~IsNaN(x1) /\ ~IsNaN(x2) /\ FCmp(x1, x2) = 0
           )
      [] f = "FAdd" ->  \* FAdd(a, b)
           (
            IF IsNaN(x1) \/ IsNaN(x2) THEN NaN
            ELSE IF IsInf(x1) /\ IsInf(x2) THEN (IF x1.s = x2.s THEN x1 ELSE NaN)
            ELSE IF IsInf(x1) THEN x1
            ELSE IF IsInf(x2) THEN x2
            ELSE IF IsZero(x1) THEN x2
            ELSE IF IsZero(x2) THEN x1
            ELSE LET e == IF x1.e <= x2.e THEN x1.e ELSE x2.e
                     x == BShl(x1.m, x1.e - e)
                     y == BShl(x2.m, x2.e - e)
                     c == BCmp(x, y)
                 IN  IF x1.s = x2.s THEN RoundBig(x1.s, BAdd(x, y), FALSE, e)
                     ELSE IF c = 0 THEN Zero
                     ELSE IF c > 0 THEN RoundBig(x1.s, BSub(x, y), FALSE, e)
                     ELSE RoundBig(x2.s, BSub(y, x), FALSE, e)
           )
      [] f = "FNeg" ->  \* FNeg(a)
           (
            IF IsNaN(x1) \/ IsZero(x1) THEN x1 ELSE [x1 EXCEPT !.s = -x1.s]
           )
      [] f = "FSub" ->  \* FSub(a, b)
           (
            FAdd(x1, FNeg(x2))
           )
      [] f = "FMul" ->  \* FMul(a, b)
           (
            IF IsNaN(x1) \/ IsNaN(x2) THEN NaN
            ELSE IF IsInf(x1) \/ IsInf(x2)
                 THEN (IF IsZero(x1) \/ IsZero(x2) THEN NaN ELSE Inf(x1.s * x2.s))
            ELSE IF IsZero(x1) \/ IsZero(x2) THEN Zero
            ELSE RoundBig(x1.s * x2.s, BMul(x1.m, x2.m), FALSE, x1.e + x2.e)
           )
      [] f = "FDiv" ->  \* FDiv(a, b)
           (
            IF IsNaN(x1) \/ IsNaN(x2) THEN NaN
            ELSE IF IsInf(x1) THEN (IF IsInf(x2) THEN NaN ELSE Inf(x1.s * x2.s))
            ELSE IF IsInf(x2) THEN Zero
            ELSE IF IsZero(x2) THEN (IF IsZero(x1) THEN NaN ELSE Inf(x1.s * x2.s))
            ELSE IF IsZero(x1) THEN Zero
            ELSE LET d == BDivMod(BShl(x1.m, 55), x2.m)
                 IN  RoundBig(x1.s * x2.s, d.q, d.r # <<>>, x1.e - x2.e - 55)
           )
      [] f = "BDivMod" ->  \* BDivMod(a, b)
           (
            LET sh == LimbBits - IntBitLen(x2[Len(x2)])
                st == BDivLimbs(BShl(x1, sh), BShl(x2, sh), 1)
            IN  [q |-> BNorm(st.q), r |-> BShr(st.r, sh)]
           )
      [] f = "BDivStep" ->  \* BDivStep(st, limb, b)
           (
            LET d == BDivDigit(BNorm(<<x2>> \o x1.r), x3)
            IN  [q |-> <<d.q>> \o x1.q, r |-> d.r]
           )
      [] f = "BDivDigit" ->  \* BDivDigit(r, b)
           (
            LET n == Len(x2)
                est == (Limb(x1, n + 1) * LimbBase + Limb(x1, n)) \div (x2[n] + 1)
            IN  BDivFix(est, BSub(x1, BMulSmall(x2, est)), x2)
           )
      [] f = "BDivFix" ->  \* BDivFix(q, r, b)
           (
            IF BCmp(x2, x3) >= 0 THEN BDivFix(x1 + 1, BSub(x2, x3), x3)
            ELSE [q |-> x1, r |-> x2]
           )
      [] f = "FromInt" ->  \* FromInt(n)
           (
            IF x1 >= 0 THEN RoundBig(1, BFromInt(x1), FALSE, 0)
            ELSE RoundBig(-1, BFromInt(-x1), FALSE, 0)
           )
      [] f = "BFromInt" ->  \* BFromInt(n)
           (
            IF x1 = 0 THEN <<>> ELSE <<x1 % LimbBase>> \o BFromInt(x1 \div LimbBase)
           )
      [] f = "BToInt" ->  \* BToInt(a)
           (
            IF x1 = <<>> THEN 0 ELSE x1[1] + LimbBase * BToInt(Tail(x1))
           )
      [] f = "Dec" ->  \* Dec(n, d)
           (
            FDiv(FromInt(x1), FromInt(x2))
           )
      [] f = "FMin" ->  \* FMin(a, b)
           (
            IF FLt(x2, x1) THEN x2 ELSE x1
           )
      [] f = "FMax" ->  \* FMax(a, b)
           (
            IF FLt(x1, x2) THEN x2 ELSE x1
           )
      [] f = "FAbs" ->  \* FAbs(a)
           (
            [x1 EXCEPT !.s = 1]
           )
      [] f = "FCeilInt" ->  \* FCeilInt(a)
           (
            IF IsZero(x1) THEN 0
            ELSE IF x1.e >= 0 THEN x1.s * BToInt(BShl(x1.m, x1.e))
            ELSE LET fl == BToInt(BShr(x1.m, -x1.e))
                     exact == BLowZero(x1.m, -x1.e)
                 IN  IF x1.s > 0 THEN (IF exact THEN fl ELSE fl + 1) ELSE -fl
           )
      [] f = "FRoundScaled" ->  \* FRoundScaled(a, k)
           (
            LET p == BMulSmall(x1.m, x2)
                hi == BShr(p, -x1.e)
                c == BCmpHalf(p, -x1.e)
                up == c > 0 \/ (c = 0 /\ BIsOdd(hi))
            IN  IF IsZero(x1) THEN 0
                ELSE IF x1.e >= 0 THEN BToInt(BShl(p, x1.e))
                ELSE BToInt(hi) + (IF up THEN 1 ELSE 0)
           )
      [] f = "FSqrt" ->  \* FSqrt(a)
           (
            IF IsNaN(x1) THEN NaN
            ELSE IF IsZero(x1) THEN Zero
            ELSE IF x1.s < 0 THEN NaN
            ELSE IF IsInf(x1) THEN x1
            ELSE LET t == IF x1.e % 2 = 0 THEN 56 ELSE 57
                     big == BShl(x1.m, t)
                     r == BSqrt(big)
                 IN  RoundBig(1, r, BCmp(BMul(r, r), big) # 0, (x1.e - t) \div 2)
           )
      [] f = "BSqrt" ->  \* BSqrt(a)
           (
            LET len == BBitLen(x1)
                sh == IF len <= 30 THEN 0 ELSE 2 * ((len - 29) \div 2)
                top == BToInt(BShr(x1, sh))
            IN  IF x1 = <<>> THEN <<>>
                ELSE BSqrtNewton(x1, BShl(BFromInt(IntSqrt(top) + 1), sh \div 2))
           )
      [] f = "IntSqrt" ->  \* IntSqrt(t)
           (
            IntSqrtAt(x1, 14, 0)
           )
      [] OTHER -> Body(f, x1)

(***************************************************************************)
(* stats/sample_size.py                                                    *)
(***************************************************************************)
\* treatment_rate as it would be if mde were an absolute effect.
treatment_rate_absolute(self) == FAdd(self.baseline_rate, self.mde)

\* ExperimentParams.treatment_rate().
treatment_rate(self) == FMul(self.baseline_rate, FAdd(One, self.mde))

\* ExperimentParams.to_dict().
to_dict(self) ==
    [alpha |-> self.alpha, power |-> self.power, mde |-> self.mde,
     baseline_rate |-> self.baseline_rate, treatment_rate |-> treatment_rate(self)]

(***************************************************************************)
(* The inputs the invocations are drawn from.                              *)
(***************************************************************************)
\* Field values of an ExperimentParams: below 0, 0, inside (0,1), 1, above 1
\* and NaN.
ParamValues == {Dec(-1, 4), Zero, Dec(1, 2), One, Dec(5, 4), NaN}

MaxRateTenths == 3

BaselineRates == {Dec(k, 10) : k \in 1..MaxRateTenths}

Effects == {Dec(k, 10) : k \in 1..MaxRateTenths}

Powers == {Dec(8, 10), Dec(9, 10)}

SignificanceLevels == {Dec(5, 100), Dec(1, 10)}

\* The two documented hypothesis types and two strings that are neither.
HypothesisTypes == {"two-sided", "one-sided", "two_sided", "greater"}

ControlRatios == {Dec(k, 10) : k \in 1..9}

DailyTraffics == {0, 1000}

TrafficAllocations == {Zero, Dec(1, 2), One}

MaxGroupSize == 2

MaxThousands == 2

\* (successes, size) of one arm, the size possibly 0.
Arms == {<<k, n>> : k \in 0..MaxGroupSize, n \in 0..MaxGroupSize} \ {x \in (0..MaxGroupSize) \X (0..MaxGroupSize) : x[1] > x[2]}

ConfidenceLevels == {Dec(95, 100), Dec(9, 10)}

\* The three documented alternatives and the scipy name of one of them.
AlternativeInputs == Alternatives \cup {"greater"}

\* The observations of one arm: its failures, then its successes.
SampleOf(arm) == [i \in 1..arm[2] |-> IF i <= arm[2] - arm[1] THEN 0 ELSE 1]

Samples == {SampleOf(arm) : arm \in Arms}

MetricTypes == {"binary", "continuous", "ordinal"}

\* Group sizes of a sample ratio check: none, a few, and hundreds.
GroupSizes == {0, 1, 2, 5, 400, 500, 600}

ExpectedRatios == {Zero, Dec(3, 10), Dec(1, 2)}

Alphas == {Dec(1, 100), Dec(5, 100), One}

PValues == {Dec(1, 100), Dec(5, 100), FSub(One, Dec(95, 100)), Dec(1, 2)}

\* What scipy can hand back for ttest_ind(a, b, equal_var): the statistic and
\* a p-value, which is NaN when the statistic is.
TTestOutcomes(a, b, equal_var) ==
    LET t_stat == ttest_statistic(a, b, equal_var)
    IN  {[statistic |-> t_stat, pvalue |-> p, t_critical |-> Dec(43, 10)] :
             p \in IF IsNaN(t_stat) THEN {NaN} ELSE PValues}

\* The next binary64 value above a positive finite x.
NextUp(x) == RoundBig(1, BAdd(x.m, <<1>>), FALSE, x.e)

\* What tt_ind_solve_power can hand back: sizes at, just below and just above
\* the multiples of 1000.
SolvedSizes ==
    {x \in {FAdd(FromInt(1000 * k), Dec(j, 2)) : k \in 0..MaxThousands, j \in -1..1} :
         FLt(Zero, x)}
    \cup {NextUp(FromInt(1000 * k)) : k \in 1..MaxThousands}

SolverOutcomes == {[effect_size |-> Dec(-1, 10), n_per_group |-> n] : n \in SolvedSizes}

DefaultParams == ExperimentParams(Dec(5, 100), Dec(80, 100), Dec(10, 100), Dec(10, 100))

\* Results handed to is_statistically_significant: produced at either
\* confidence level, with p-values below, at and above the alphas (and NaN)
\* and either value of the stored flag.
TestResults ==
    {[proportion_test(1, 2, 2, 2, cl, "two-sided").val
          EXCEPT !.p_value = p, !.significant = sig] :
         cl \in ConfidenceLevels, p \in PValues \cup {NaN}, sig \in BOOLEAN}

MaxSamples == 4

MaxStep == 3

\* What TTestIndPower().power can hand back: a power that grows with nobs.
PowerOutcomes ==
    {[power |-> [n \in 0..(MaxSamples + MaxStep) |-> Dec(n, n + k)]] : k \in 1..2}

VARIABLES op, args, local, ret

vars == <<op, args, local, ret>>

\* op is the function invoked, args its arguments, local the values of the
\* local variables a later step reads, ret its outcome.  At first no
\* invocation is in progress: the engine keeps no state between calls.
Init == op = "idle" /\ args = <<>> /\ local = <<>> /\ ret = <<>>

Validate ==
    \E a \in ParamValues, p \in ParamValues, m \in ParamValues, b \in ParamValues :
        LET self == ExperimentParams(a, p, m, b)
        IN  /\ op = "idle"
            /\ op' = "validate"
            /\ local' = <<>>
            /\ args' = [self |-> self]
            /\ ret' = validate(self)

CalculateSampleSize ==
    \E b \in BaselineRates, m \in Effects, p \in Powers,
       s \in SignificanceLevels, h \in HypothesisTypes :
        /\ op = "idle"
        /\ op' = "calculate_sample_size"
        /\ local' = <<>>
        /\ args' = [baseline_rate |-> b, minimum_detectable_effect |-> m,
                    power |-> p, significance_level |-> s, hypothesis_type |-> h]
        /\ ret' = calculate_sample_size(b, m, p, s, h)

CalculateExperimentDuration ==
    \E b \in BaselineRates, m \in Effects, h \in {"two-sided", "one-sided", "greater"} :
      \E n \in {calculate_sample_size(b, m, Dec(8, 10), Dec(5, 100), h)},
         d \in DailyTraffics, t \in TrafficAllocations, c \in ControlRatios :
        /\ op = "idle"
        /\ op' = "calculate_experiment_duration"
        /\ local' = [sample_size_per_variant |-> n]
        /\ args' = [baseline_rate |-> b, minimum_detectable_effect |-> m,
                    daily_traffic |-> d, traffic_allocation |-> t,
                    control_ratio |-> c, power |-> Dec(8, 10),
                    significance_level |-> Dec(5, 100), hypothesis_type |-> h]
        /\ ret' = duration_from(n, d, t, c)

CalculateSampleSizeFromParams ==
    \E params \in {DefaultParams, ExperimentParams(Dec(1, 100), Dec(9, 10), Dec(2, 10), Dec(3, 10))},
       lib \in SolverOutcomes :
        /\ op = "idle"
        /\ op' = "sample_size.calculate_sample_size"
        /\ local' = <<>>
        /\ args' = [params |-> params, lib |-> lib]
        /\ ret' = sample_size_calculate_sample_size(params, lib)

ProportionTest ==
    \E c \in Arms, t \in Arms, cl \in ConfidenceLevels, alt \in AlternativeInputs :
        /\ op = "idle"
        /\ op' = "proportion_test"
        /\ local' = <<>>
        /\ args' = [control_successes |-> c[1], control_size |-> c[2],
                    treatment_successes |-> t[1], treatment_size |-> t[2],
                    confidence_level |-> cl, alternative |-> alt]
        /\ ret' = proportion_test(c[1], c[2], t[1], t[2], cl, alt)

MeanTest ==
    \E c \in Samples, t \in Samples, ev \in BOOLEAN :
        \E lib \in TTestOutcomes(t, c, ev), alt \in AlternativeInputs :
            /\ op = "idle"
            /\ op' = "mean_test"
            /\ local' = <<>>
            /\ args' = [control_data |-> c, treatment_data |-> t,
                        confidence_level |-> Dec(95, 100), alternative |-> alt,
                        equal_var |-> ev, lib |-> lib]
            /\ ret' = mean_test(c, t, Dec(95, 100), alt, ev, lib)

AATest ==
    \E c \in Samples, t \in Samples, m \in MetricTypes :
        \E lib \in IF m = "continuous"
                   THEN TTestOutcomes(t, c, FALSE)
                   ELSE {[statistic |-> NaN, pvalue |-> NaN, t_critical |-> NaN]} :
            /\ op = "idle"
            /\ op' = "aa_test"
            /\ local' = <<>>
            /\ args' = [control_group |-> c, treatment_group |-> t,
                        alpha |-> Dec(5, 100), metric_type |-> m, lib |-> lib]
            /\ ret' = aa_test(c, t, Dec(5, 100), m, lib)

SampleRatioMismatch ==
    \E c \in GroupSizes, t \in GroupSizes, e \in ExpectedRatios, a \in Alphas :
        /\ op = "idle"
        /\ op' = "sample_ratio_mismatch"
        /\ local' = <<>>
        /\ args' = [control_size |-> c, treatment_size |-> t,
                    expected_ratio |-> e, alpha |-> a]
        /\ ret' = sample_ratio_mismatch(c, t, e, a)

CalculatePowerCurve ==
    \E lo \in 1..MaxSamples, hi \in 1..MaxSamples, step \in 0..MaxStep, lib \in PowerOutcomes :
        /\ op = "idle"
        /\ op' = "calculate_power_curve"
        /\ local' = <<>>
        /\ args' = [params |-> DefaultParams, min_samples |-> lo, max_samples |-> hi,
                    step |-> step, lib |-> lib]
        /\ ret' = calculate_power_curve(DefaultParams, lo, hi, step, lib)

IsStatisticallySignificant ==
    \E test_result \in TestResults, alpha \in Alphas :
        /\ op = "idle"
        /\ op' = "is_statistically_significant"
        /\ local' = <<>>
        /\ args' = [test_result |-> test_result, alpha |-> alpha]
        /\ ret' = Return(is_statistically_significant(test_result, alpha))

\* The caller has taken the outcome; the next invocation starts afresh.
Done == op # "idle" /\ op' = "idle" /\ args' = <<>> /\ local' = <<>> /\ ret' = <<>>

Next ==
    \/ Done
    \/ Validate
    \/ CalculateSampleSize
    \/ CalculateExperimentDuration
    \/ CalculateSampleSizeFromParams
    \/ ProportionTest
    \/ MeanTest
    \/ AATest
    \/ SampleRatioMismatch
    \/ CalculatePowerCurve
    \/ IsStatisticallySignificant

Spec == Init /\ [][Next]_vars

(***************************************************************************)
(* Concurrent invocations.  Here op, args, local and ret have one entry    *)
(* per thread: the function a thread has invoked, the arguments it passed, *)
(* the frame of the call and the outcome, <<>> while the call is running.  *)
(***************************************************************************)
Threads == {1, 2}

\* The frame a call of thread t keeps its local variables in: each call has
\* a frame of its own.
frame_shared(t) == 1

frame(t) == t

\* A fresh frame: the list `data` of a sweep and the position of its loop.
NewFrame == [data |-> <<>>, i |-> 1]

Sweeps == {"generate_duration_vs_traffic_data", "generate_duration_vs_mde_data"}

DurationArgs(m, t, h) ==
    [baseline_rate |-> Dec(1, 10), minimum_detectable_effect |-> m,
     daily_traffic |-> 1000, traffic_allocation |-> t, control_ratio |-> Dec(1, 2),
     power |-> Dec(8, 10), significance_level |-> Dec(5, 100), hypothesis_type |-> h]

TrafficSweepArgs(r, h) ==
    [baseline_rate |-> Dec(1, 10), minimum_detectable_effect |-> Dec(2, 10),
     daily_traffic |-> 1000, traffic_allocation_range |-> r, control_ratio |-> Dec(1, 2),
     power |-> Dec(8, 10), significance_level |-> Dec(5, 100), hypothesis_type |-> h]

MdeSweepArgs(r) ==
    [baseline_rate |-> Dec(1, 10), mde_range |-> r,
     daily_traffic |-> 1000, traffic_allocation |-> One, control_ratio |-> Dec(3, 10),
     power |-> Dec(8, 10), significance_level |-> Dec(5, 100), hypothesis_type |-> "two-sided"]

\* The invocations a thread may start: every core function, the sweeps over
\* ranges of different lengths and contents, one of them failing midway.
Invocations ==
    {[f |-> "validate", a |-> [self |-> ExperimentParams(Zero, One, NaN, Dec(1, 2))]]}
    \cup {[f |-> "calculate_sample_size",
           a |-> [baseline_rate |-> Dec(1, 10), minimum_detectable_effect |-> Dec(2, 10),
                  power |-> Dec(8, 10), significance_level |-> Dec(5, 100),
                  hypothesis_type |-> "one-sided"]]}
    \cup {[f |-> "calculate_experiment_duration",
           a |-> DurationArgs(Dec(3, 10), Dec(1, 2), "two-sided")]}
    \cup {[f |-> "generate_duration_vs_traffic_data", a |-> TrafficSweepArgs(r[1], r[2])] :
             r \in {<< <<Dec(1, 2), One>>, "two-sided">>,
                    << <<One>>, "one-sided">>,
                    << <<Zero, One>>, "greater">>}}
    \cup {[f |-> "generate_duration_vs_mde_data", a |-> MdeSweepArgs(r)] :
             r \in {<<Dec(1, 10), Dec(2, 10)>>, <<>>}}
    \cup {[f |-> "sample_size.calculate_sample_size",
           a |-> [params |-> DefaultParams,
                  lib |-> [effect_size |-> Dec(-1, 10), n_per_group |-> Dec(29985, 10)]]]}
    \cup {[f |-> "proportion_test",
           a |-> [control_successes |-> 1, control_size |-> 2,
                  treatment_successes |-> 2, treatment_size |-> 2,
                  confidence_level |-> Dec(95, 100), alternative |-> "larger"]]}
    \cup {[f |-> "mean_test",
           a |-> [control_data |-> <<0, 1>>, treatment_data |-> <<1, 1>>,
                  confidence_level |-> Dec(95, 100), alternative |-> "two-sided",
                  equal_var |-> FALSE, lib |-> lib]] :
             lib \in {l \in TTestOutcomes(<<1, 1>>, <<0, 1>>, FALSE) : l.pvalue = Dec(1, 2)}}
    \cup {[f |-> "aa_test",
           a |-> [control_group |-> <<0, 1>>, treatment_group |-> <<0, 1>>,
                  alpha |-> Dec(5, 100), metric_type |-> "binary",
                  lib |-> [statistic |-> NaN, pvalue |-> NaN, t_critical |-> NaN]]]}
    \cup {[f |-> "sample_ratio_mismatch",
           a |-> [control_size |-> 400, treatment_size |-> 600,
                  expected_ratio |-> Dec(1, 2), alpha |-> Dec(5, 100)]]}
    \cup {[f |-> "is_statistically_significant",
           a |-> [test_result |-> proportion_test(1, 2, 2, 2, Dec(95, 100), "larger").val,
                  alpha |-> Dec(5, 100)]]}

\* Function f run alone on arguments a, from its call to its outcome.
Invoke(f, a) ==
    CASE f = "validate" -> validate(a.self)
      [] f = "calculate_sample_size" ->
           calculate_sample_size(a.baseline_rate, a.minimum_detectable_effect, a.power,
                                 a.significance_level, a.hypothesis_type)
      [] f = "calculate_experiment_duration" ->
           calculate_experiment_duration(a.baseline_rate, a.minimum_detectable_effect,
                                         a.daily_traffic, a.traffic_allocation,
                                         a.control_ratio, a.power, a.significance_level,
                                         a.hypothesis_type)
      [] f = "generate_duration_vs_traffic_data" ->
           generate_duration_vs_traffic_data(a.baseline_rate, a.minimum_detectable_effect,
                                             a.daily_traffic, a.traffic_allocation_range,
                                             a.control_ratio, a.power, a.significance_level,
                                             a.hypothesis_type)
      [] f = "generate_duration_vs_mde_data" ->
           generate_duration_vs_mde_data(a.baseline_rate, a.mde_range, a.daily_traffic,
                                         a.traffic_allocation, a.control_ratio, a.power,
                                         a.significance_level, a.hypothesis_type)
      [] f = "sample_size.calculate_sample_size" ->
           sample_size_calculate_sample_size(a.params, a.lib)
      [] f = "proportion_test" ->
           proportion_test(a.control_successes, a.control_size, a.treatment_successes,
                           a.treatment_size, a.confidence_level, a.alternative)
      [] f = "mean_test" ->
           mean_test(a.control_data, a.treatment_data, a.confidence_level,
                     a.alternative, a.equal_var, a.lib)
      [] f = "aa_test" ->
           aa_test(a.control_group, a.treatment_group, a.alpha, a.metric_type, a.lib)
      [] f = "sample_ratio_mismatch" ->
           sample_ratio_mismatch(a.control_size, a.treatment_size, a.expected_ratio, a.alpha)
      [] f = "is_statistically_significant" ->
           Return(is_statistically_significant(a.test_result, a.alpha))

\* The values a sweep iterates over.
sweep_range(f, a) ==
    IF f = "generate_duration_vs_traffic_data" THEN a.traffic_allocation_range
    ELSE a.mde_range

\* The call of calculate_experiment_duration in the body of a sweep's loop.
sweep_duration_info(f, a, x) ==
    IF f = "generate_duration_vs_traffic_data"
    THEN calculate_experiment_duration(a.baseline_rate, a.minimum_detectable_effect,
                                       a.daily_traffic, x, a.control_ratio, a.power,
                                       a.significance_level, a.hypothesis_type)
    ELSE calculate_experiment_duration(a.baseline_rate, x, a.daily_traffic,
                                       a.traffic_allocation, a.control_ratio, a.power,
                                       a.significance_level, a.hypothesis_type)

sweep_row(f, x, duration_info) ==
    IF f = "generate_duration_vs_traffic_data" THEN traffic_row(x, duration_info)
    ELSE mde_row(x, duration_info)

ConcInit ==
    /\ op = [t \in Threads |-> "idle"]
    /\ args = [t \in Threads |-> <<>>]
    /\ local = [t \in Threads |-> NewFrame]
    /\ ret = [t \in Threads |-> <<>>]

\* Thread t calls a function: the arguments are bound and the frame is new.
Call(t) ==
    \E inv \in Invocations :
        /\ op[t] = "idle"
        /\ op' = [op EXCEPT ![t] = inv.f]
        /\ args' = [args EXCEPT ![t] = inv.a]
        /\ local' = [local EXCEPT ![frame(t)] = NewFrame]
        /\ UNCHANGED ret

\* One pass of a sweep's loop: the duration for the next value of the range
\* is computed and its row appended to data; a failure ends the call.
Iterate(t) ==
    LET fr == local[frame(t)]
        r  == sweep_range(op[t], args[t])
    IN  /\ op[t] \in Sweeps
        /\ ret[t] = <<>>
        /\ fr.i <= Len(r)
        /\ LET duration_info == sweep_duration_info(op[t], args[t], r[fr.i])
           IN  IF duration_info.kind = "raise"
               THEN /\ ret' = [ret EXCEPT ![t] = duration_info]
                    /\ UNCHANGED local
               ELSE /\ local' = [local EXCEPT ![frame(t)] =
                                    [data |-> Append(fr.data,
                                                     sweep_row(op[t], r[fr.i],
                                                               duration_info.val)),
                                     i |-> fr.i + 1]]
                    /\ UNCHANGED ret
        /\ UNCHANGED <<op, args>>

\* The loop of a sweep is over: data becomes the DataFrame returned.
Finish(t) ==
    LET fr == local[frame(t)]
    IN  /\ op[t] \in Sweeps
        /\ ret[t] = <<>>
        /\ fr.i > Len(sweep_range(op[t], args[t]))
        /\ ret' = [ret EXCEPT ![t] = Return(fr.data)]
        /\ UNCHANGED <<op, args, local>>

\* The body of a function without a loop.
Run(t) ==
    /\ op[t] \notin Sweeps \cup {"idle"}
    /\ ret[t] = <<>>
    /\ ret' = [ret EXCEPT ![t] = Invoke(op[t], args[t])]
    /\ UNCHANGED <<op, args, local>>

\* The caller of thread t takes the outcome; the frame is gone.
Collect(t) ==
    /\ ret[t] # <<>>
    /\ op' = [op EXCEPT ![t] = "idle"]
    /\ args' = [args EXCEPT ![t] = <<>>]
    /\ local' = [local EXCEPT ![frame(t)] = NewFrame]
    /\ ret' = [ret EXCEPT ![t] = <<>>]

ConcNext ==
    \E t \in Threads :
        \/ Call(t)
        \/ Iterate(t)
        \/ Finish(t)
        \/ Run(t)
        \/ Collect(t)

ConcSpec == ConcInit /\ [][ConcNext]_vars

(***************************************************************************)
(* One ExperimentParams object and the operations on it.  Here args.self   *)
(* is the object, op the last operation applied to it and ret what that    *)
(* operation returned.                                                     *)
(***************************************************************************)
\* 2^-53, half the gap between 1 and the next float above it.
HalfEpsilon == RoundBig(1, <<1>>, FALSE, -53)

\* The values a caller stores in a field: outside (0,1), on its borders,
\* inside it, next to its borders, and NaN.
FieldValues(name) ==
    CASE name = "mde" -> {Zero, HalfEpsilon, Dec(1, 2), FSub(One, HalfEpsilon), Dec(5, 4)}
      [] name = "baseline_rate" -> {Dec(-1, 4), Dec(1, 2), Dec(9, 10), One}
      [] OTHER -> {Zero, Dec(1, 2), NaN}

\* ExperimentParams(): every field has its default.
ParamsInit ==
    /\ op = "__init__"
    /\ args = [self |-> DefaultParams]
    /\ local = <<>>
    /\ ret = Return(None)

\* The dataclass is not frozen: a caller may assign to a field.
SetField ==
    \E name \in FieldNames :
        \E v \in FieldValues(name) :
            /\ op' = "__setattr__"
            /\ args' = [self |-> [args.self EXCEPT ![name] = v]]
            /\ ret' = Return(None)
            /\ UNCHANGED local

CallValidate ==
    /\ op' = "validate"
    /\ ret' = validate(args.self)
    /\ UNCHANGED <<args, local>>

CallTreatmentRate ==
    /\ op' = "treatment_rate"
    /\ ret' = Return(treatment_rate(args.self))
    /\ UNCHANGED <<args, local>>

CallToDict ==
    /\ op' = "to_dict"
    /\ ret' = Return(to_dict(args.self))
    /\ UNCHANGED <<args, local>>

ParamsNext ==
    \/ SetField
    \/ CallValidate
    \/ CallTreatmentRate
    \/ CallToDict

ParamsSpec == ParamsInit /\ [][ParamsNext]_vars
(***************************************************************************)
(* Properties.                                                             *)
(***************************************************************************)
Returned == ret.kind = "return"

InDuration == op = "calculate_experiment_duration"

HypothesisTypesAllowed == {"two-sided", "one-sided"}

\* C1: validate() never raises, and the keys of the mapping it returns are
\* exactly the fields among alpha, power, mde and baseline_rate whose value
\* is not strictly between 0 and 1; in particular the mapping is empty if and
\* only if all four fields lie in (0,1).
C1_ValidateReportsExactlyTheInvalidFields ==
    op = "validate" =>
        /\ Returned
        /\ DOMAIN ret.val =
               {f \in FieldNames :
                    ~(FLt(Zero, args.self[f]) /\ FLt(args.self[f], One))}
        /\ (ret.val = <<>>) <=>
               (\A f \in FieldNames :
                    FLt(Zero, args.self[f]) /\ FLt(args.self[f], One))

\* Two fields are reported at once while another field is valid.
C1_Witness ==
    /\ op = "validate"
    /\ Returned
    /\ Cardinality(DOMAIN ret.val) >= 2
    /\ "alpha" \notin DOMAIN ret.val

EmptyGroupCall ==
    \/ op = "proportion_test" /\ (args.control_size = 0 \/ args.treatment_size = 0)
    \/ /\ op = "aa_test"
       /\ args.metric_type = "binary"
       /\ (Len(args.control_group) = 0 \/ Len(args.treatment_group) = 0)

\* C2: proportion_test or aa_test called with an empty group raises an
\* explicit empty-group error, never a raw division by zero, and returns no
\* result.
C2_EmptyGroupRaisesExplicitError ==
    EmptyGroupCall => ret.kind = "raise" /\ ret.exc # "ZeroDivisionError"

\* proportion_test with an empty control group ends in ZeroDivisionError.
C2_Witness ==
    /\ op = "proportion_test"
    /\ args.control_size = 0
    /\ args.alternative = "two-sided"
    /\ ret = Raise("ZeroDivisionError")

\* C3: calculate_sample_size and calculate_experiment_duration called with a
\* hypothesis_type other than "two-sided" or "one-sided" fail with an error
\* and produce no result.
C3_UnsupportedHypothesisTypeFails ==
    /\ op \in {"calculate_sample_size", "calculate_experiment_duration"}
    /\ args.hypothesis_type \notin HypothesisTypesAllowed
    => ret.kind = "raise"

\* An unsupported hypothesis_type yields the result of the one-sided design.
C3_Witness ==
    /\ op = "calculate_sample_size"
    /\ args.hypothesis_type = "greater"
    /\ Returned
    /\ ret = calculate_sample_size(args.baseline_rate,
                                   args.minimum_detectable_effect, args.power,
                                   args.significance_level, "one-sided")

\* C4: proportion_test and mean_test called with an alternative outside
\* two-sided, larger, smaller, and aa_test called with a metric_type outside
\* binary, continuous, end in the invalid-input error (ValueError) and return
\* no result; a value inside the set selects the branch it names.
C4_InvalidSelectorIsInvalidInput ==
    /\ (op \in {"proportion_test", "mean_test"}
        /\ args.alternative \notin Alternatives) => ret = Raise("ValueError")
    /\ (op = "aa_test" /\ args.metric_type \notin {"binary", "continuous"})
           => ret = Raise("ValueError")
    /\ (op = "proportion_test" /\ Returned) =>
           ret.val.p_value = z_p_value(ret.val.statistic, args.alternative)
    /\ (op = "aa_test" /\ Returned) =>
           ret.val.test_type = IF args.metric_type = "binary"
                               THEN "AA Test (Binary)"
                               ELSE "AA Test (Continuous)"

\* proportion_test with an unknown alternative and an empty group ends in
\* ZeroDivisionError, raised before the alternative is looked at.
C4_Witness ==
    /\ op = "proportion_test"
    /\ args.alternative \notin Alternatives
    /\ args.treatment_size = 0
    /\ ret = Raise("ZeroDivisionError")

\* C5: calculate_experiment_duration with daily_traffic = 0 or
\* traffic_allocation = 0 returns a result whose days_required is +infinity
\* and raises nothing; when daily_traffic * traffic_allocation > 0,
\* days_required is total_sample_size / (daily_traffic * traffic_allocation).
C5_DaysRequired ==
    InDuration =>
        LET traffic == FMul(FromInt(args.daily_traffic), args.traffic_allocation)
        IN  /\ (args.daily_traffic = 0 \/ IsZero(args.traffic_allocation)) =>
                   Returned /\ ret.val.days_required = Inf(1)
            /\ FLt(Zero, traffic) =>
                   /\ Returned
                   /\ ret.val.days_required =
                          FDiv(FromInt(ret.val.total_sample_size), traffic)

\* Traffic is positive but none of it is allocated: the duration is infinite.
C5_Witness ==
    /\ InDuration
    /\ args.daily_traffic > 0
    /\ IsZero(args.traffic_allocation)
    /\ Returned
    /\ ret.val.days_required = Inf(1)

\* C6: with control_ratio = 0.5 the total_sample_size is exactly twice the
\* per-variant size calculate_sample_size returns for the same design.
C6_BalancedTotalIsTwiceN ==
    (InDuration /\ FEq(args.control_ratio, Dec(1, 2))) =>
        /\ Returned
        /\ ret.val.total_sample_size = 2 * local.sample_size_per_variant.val

C6_Witness ==
    /\ InDuration
    /\ args.control_ratio = Dec(1, 2)
    /\ Returned
    /\ ret.val.total_sample_size > 0
    /\ ret.val.total_sample_size = 2 * local.sample_size_per_variant.val

C8_ArmsCoverTotal ==
    (InDuration /\ Returned) =>
        LET total == FromInt(ret.val.total_sample_size)
            c == args.control_ratio
        IN  /\ ret.val.control_sample_size + ret.val.treatment_sample_size
                   >= ret.val.total_sample_size
            /\ ret.val.control_sample_size = FCeilInt(FMul(total, c))
            /\ ret.val.treatment_sample_size = FCeilInt(FMul(total, FSub(One, c)))

\* Both arms are rounded up and together exceed the total.
C8_Witness ==
    /\ InDuration
    /\ Returned
    /\ ret.val.control_sample_size + ret.val.treatment_sample_size
           > ret.val.total_sample_size

\* C9: in every result of the effect-size path calculate_sample_size the
\* total is twice sample_size_per_group, and sample_size_per_group is the
\* smallest multiple of 1000 that is at least the per-group size the power
\* solver returned.
C9_RoundedUpToThousand ==
    (op = "sample_size.calculate_sample_size" /\ Returned) =>
        LET per == ret.val.sample_size_per_group
            n == args.lib.n_per_group
        IN  /\ ret.val.total_sample_size = 2 * per
            /\ per % 1000 = 0
            /\ FLe(n, FromInt(per))
            /\ FLt(FromInt(per - 1000), n)

\* A solved size just above a multiple of 1000 goes to the next multiple.
C9_Witness ==
    /\ op = "sample_size.calculate_sample_size"
    /\ Returned
    /\ args.lib.n_per_group = NextUp(FromInt(1000))
    /\ ret.val.sample_size_per_group = 2000

\* C10: every TestResult of proportion_test or mean_test has significant
\* true if and only if its p_value is below 1 - confidence_level.
C10_SignificantIffBelowAlpha ==
    (op \in {"proportion_test", "mean_test"} /\ Returned) =>
        (ret.val.significant <=>
             FLt(ret.val.p_value, FSub(One, args.confidence_level)))

\* A p-value equal to 1 - confidence_level is not significant.
C10_Witness ==
    /\ op = "mean_test"
    /\ Returned
    /\ ret.val.p_value = FSub(One, args.confidence_level)
    /\ ~ret.val.significant

InValidation == op \in {"aa_test", "sample_ratio_mismatch"}

\* C11: every ValidationResult returned by aa_test (binary or continuous) or
\* by sample_ratio_mismatch has passed true if and only if its p_value is at
\* least the alpha of the call.
C11_PassedIffAtLeastAlpha ==
    (InValidation /\ Returned) =>
        (ret.val.passed <=> FLe(args.alpha, ret.val.p_value))

\* A continuous AA test whose p-value equals alpha passes.
C11_Witness ==
    /\ op = "aa_test"
    /\ args.metric_type = "continuous"
    /\ Returned
    /\ ret.val.p_value = args.alpha
    /\ ret.val.passed

\* C12: in every ValidationResult returned by aa_test or
\* sample_ratio_mismatch the warning_message is set (not None) if and only if
\* passed is false.
C12_WarningIffFailed ==
    (InValidation /\ Returned) =>
        ((ret.val.warning_message # None) <=> ~ret.val.passed)

\* A passing sample ratio check with unequal groups carries no warning.
C12_Witness ==
    /\ op = "sample_ratio_mismatch"
    /\ args.control_size # args.treatment_size
    /\ Returned
    /\ ret.val.passed
    /\ ret.val.warning_message = None

NonEmptyProportionTest ==
    op = "proportion_test" /\ args.control_size > 0 /\ args.treatment_size > 0

\* C13: for non-empty groups the two-sided proportion_test with the arms
\* exchanged returns the same p_value and the same significant flag, with
\* statistic and difference negated.
C13_TwoSidedSymmetry ==
    (NonEmptyProportionTest /\ args.alternative = "two-sided") =>
        LET swapped == proportion_test(args.treatment_successes,
                                       args.treatment_size,
                                       args.control_successes,
                                       args.control_size,
                                       args.confidence_level, "two-sided")
        IN  /\ Returned
            /\ swapped.kind = "return"
            /\ swapped.val.p_value = ret.val.p_value
            /\ swapped.val.significant = ret.val.significant
            /\ swapped.val.statistic = FNeg(ret.val.statistic)
            /\ swapped.val.difference = FNeg(ret.val.difference)

\* A two-sided test whose treatment arm converts better: the statistic is
\* positive and the p-value is a number.
C13_Witness ==
    /\ NonEmptyProportionTest
    /\ args.alternative = "two-sided"
    /\ Returned
    /\ FLt(Zero, ret.val.statistic)
    /\ FLt(ret.val.p_value, One)

TestResultView(r) ==
    [confidence_interval |-> r.confidence_interval,
     control_metric |-> r.control_metric,
     treatment_metric |-> r.treatment_metric,
     difference |-> r.difference,
     relative_difference |-> r.relative_difference]

\* C14: a call of proportion_test or mean_test that returns a result returns,
\* under each of the three alternatives, the same confidence_interval,
\* control_metric, treatment_metric, difference and relative_difference.
C14_IntervalIndependentOfAlternative ==
    /\ (op = "proportion_test" /\ Returned) =>
           \A alt \in Alternatives \ {args.alternative} :
               LET other == proportion_test(args.control_successes,
                                            args.control_size,
                                            args.treatment_successes,
                                            args.treatment_size,
                                            args.confidence_level, alt)
               IN  /\ other.kind = "return"
                   /\ TestResultView(other.val) = TestResultView(ret.val)
    /\ (op = "mean_test" /\ Returned) =>
           \A alt \in Alternatives \ {args.alternative} :
               LET other == mean_test(args.control_data, args.treatment_data,
                                      args.confidence_level, alt,
                                      args.equal_var, args.lib)
               IN  /\ other.kind = "return"
                   /\ TestResultView(other.val) = TestResultView(ret.val)

\* An upper-tailed proportion test with a finite two-sided interval.
C14_Witness ==
    /\ NonEmptyProportionTest
    /\ args.alternative = "larger"
    /\ Returned
    /\ ret.val.confidence_interval[1].k = "fin"
    /\ ret.val.confidence_interval[2].k = "fin"
    /\ FLt(ret.val.confidence_interval[1], ret.val.confidence_interval[2])

InSRM == op = "sample_ratio_mismatch"

\* The observed counts are the expected counts of the call.
ObservedIsExpected ==
    LET total == FromInt(args.control_size + args.treatment_size)
    IN  /\ FEq(FromInt(args.control_size),
               FMul(total, FSub(One, args.expected_ratio)))
        /\ FEq(FromInt(args.treatment_size), FMul(total, args.expected_ratio))

\* C15: sample_ratio_mismatch with observed counts equal to the expected
\* counts returns statistic 0, p_value 1.0, passed true and no
\* warning_message, for every alpha in (0,1].
C15_ExactMatchPasses ==
    (InSRM /\ ObservedIsExpected) =>
        /\ Returned
        /\ ret.val.statistic = Zero
        /\ ret.val.p_value = One
        /\ ret.val.passed
        /\ ret.val.warning_message = None

\* Two empty groups match their expected counts, and the call ends in
\* ZeroDivisionError.
C15_Witness ==
    /\ InSRM
    /\ args.control_size = 0
    /\ args.treatment_size = 0
    /\ ObservedIsExpected
    /\ ret = Raise("ZeroDivisionError")

\* s contains t.
Contains(s, t) ==
    \E i \in 1..(Len(s) - Len(t) + 1) : SubSeq(s, i, i + Len(t) - 1) = t

\* h hundredths written with two decimals.
TwoDecimals(h) ==
    ToString(h \div 100) \o "." \o ToString((h % 100) \div 10) \o ToString(h % 10)

\* C16: whenever sample_ratio_mismatch returns a failed result, its
\* warning_message is not empty and contains the expected ratio and the
\* actual ratio treatment_size / (control_size + treatment_size), each
\* rounded to two decimals, and both raw counts.
C16_FailureMessageReportsRatiosAndCounts ==
    (InSRM /\ Returned /\ ~ret.val.passed) =>
        LET msg == ret.val.warning_message
            total == args.control_size + args.treatment_size
        IN  /\ msg # None
            /\ Len(msg) > 0
            /\ \E h \in 0..100 :
                   /\ FLe(FAbs(FSub(FMul(args.expected_ratio, FromInt(100)),
                                     FromInt(h))), Half)
                   /\ Contains(msg, "Expected ratio: " \o TwoDecimals(h) \o ",")
            /\ \E h \in 0..100 :
                   /\ 200 * args.treatment_size - 2 * h * total <= total
                   /\ 2 * h * total - 200 * args.treatment_size <= total
                   /\ Contains(msg, "Actual ratio: " \o TwoDecimals(h) \o ".")
            /\ Contains(msg, "Control size: " \o ToString(args.control_size) \o ",")
            /\ Contains(msg, "Treatment size: " \o ToString(args.treatment_size) \o ".")

\* 400 against 600 at an expected ratio of 0.5 and alpha 0.05 fails, and the
\* warning shows 0.50 and 0.60.
C16_Witness ==
    /\ InSRM
    /\ args.control_size = 400
    /\ args.treatment_size = 600
    /\ args.expected_ratio = Dec(1, 2)
    /\ args.alpha = Dec(5, 100)
    /\ Returned
    /\ ~ret.val.passed
    /\ Contains(ret.val.warning_message, "0.50")
    /\ Contains(ret.val.warning_message, "0.60")

NonEmptyBinaryAATest ==
    /\ op = "aa_test"
    /\ args.metric_type = "binary"
    /\ Len(args.control_group) > 0
    /\ Len(args.treatment_group) > 0

\* The proportion_test call the binary AA test is compared with.
AsProportionTest ==
    proportion_test(SumSeq(args.control_group), Len(args.control_group),
                    SumSeq(args.treatment_group), Len(args.treatment_group),
                    FSub(One, args.alpha), "two-sided")

\* C17: for non-empty 0/1 samples the binary aa_test agrees with the
\* two-sided proportion_test on the sums and sizes at confidence_level
\* 1 - alpha: same statistic, same p_value, and passed is the negation of
\* significant.
C17_BinaryAATestIsProportionTest ==
    NonEmptyBinaryAATest =>
        /\ Returned
        /\ AsProportionTest.kind = "return"
        /\ AsProportionTest.val.statistic = ret.val.statistic
        /\ AsProportionTest.val.p_value = ret.val.p_value
        /\ ret.val.passed = ~AsProportionTest.val.significant

\* Two groups without a single success: the p-value is NaN, so the AA test
\* does not pass and the proportion test is not significant.
C17_Witness ==
    /\ NonEmptyBinaryAATest
    /\ SumSeq(args.control_group) = 0
    /\ SumSeq(args.treatment_group) = 0
    /\ Returned
    /\ IsNaN(ret.val.p_value)
    /\ ~ret.val.passed
    /\ ~AsProportionTest.val.significant

InSampleSize == op = "calculate_sample_size"

InEffectSizePath == op = "sample_size.calculate_sample_size"

\* The duration path's size and unrounded size for the design of the call
\* with another effect m and another power p.
SizeAt(m, p) ==
    calculate_sample_size(args.baseline_rate, m, p, args.significance_level,
                          args.hypothesis_type).val

RawSizeAt(m, p) ==
    raw_sample_size(args.baseline_rate, m, p, args.significance_level,
                    args.hypothesis_type)

\* The effect-size path's per-group size when the power solver returns lib.
\* The solver's value falls strictly as the effect grows and rises strictly
\* with the power, so a call with a larger effect or a smaller power is a call
\* with a smaller solver value.
PerGroupAt(lib) ==
    sample_size_calculate_sample_size(args.params, lib).val.sample_size_per_group

InTest == op \in {"proportion_test", "mean_test"}

\* The call reaches the computation of the relative difference: the
\* alternative is a documented one and no group is empty.
ReachesRelativeDifference ==
    /\ InTest
    /\ args.alternative \in Alternatives
    /\ op = "proportion_test" => args.control_size > 0 /\ args.treatment_size > 0
    /\ op = "mean_test" => Len(args.control_data) > 0 /\ Len(args.treatment_data) > 0

\* C19: in every TestResult difference is treatment_metric - control_metric,
\* and relative_difference is difference / control_metric * 100 when
\* control_metric is not 0 and +infinity when it is 0; a call whose control
\* metric is 0 returns its result and raises nothing.
C19_RelativeDifference ==
    /\ (InTest /\ Returned) =>
           /\ ret.val.difference =
                  FSub(ret.val.treatment_metric, ret.val.control_metric)
           /\ ret.val.relative_difference =
                  IF FEq(ret.val.control_metric, Zero)
                  THEN Inf(1)
                  ELSE FMul(FDiv(ret.val.difference, ret.val.control_metric),
                            FromInt(100))
    /\ (/\ ReachesRelativeDifference
        /\ op = "proportion_test" => args.control_successes = 0
        /\ op = "mean_test" => SumSeq(args.control_data) = 0) =>
           /\ Returned
           /\ ret.val.control_metric = Zero
           /\ ret.val.relative_difference = Inf(1)

\* A mean test whose control group is all zeros and whose treatment group
\* is not: the relative difference is +infinity.
C19_Witness ==
    /\ op = "mean_test"
    /\ Returned
    /\ ret.val.control_metric = Zero
    /\ FLt(Zero, ret.val.difference)
    /\ ret.val.relative_difference = Inf(1)

\* The part of the state that belongs to thread t.
OwnState(o, a, l, r, t) == <<o[t], a[t], l[t], r[t]>>

\* A step touches the state of one thread only.
OneThreadStep ==
    \E t \in Threads :
        \A u \in Threads \ {t} :
            OwnState(op', args', local', ret', u) = OwnState(op, args, local, ret, u)

\* While a call is in progress its function and arguments stay as passed.
ArgumentsKept ==
    \A t \in Threads :
        (op[t] # "idle" /\ op'[t] # "idle") => (op'[t] = op[t] /\ args'[t] = args[t])

\* C20: whatever the interleaving of concurrent invocations, the outcome of
\* each is the outcome of that invocation run alone on its arguments; a step
\* of one invocation changes nothing that belongs to another, and no
\* invocation changes its own arguments.
C20_ConcurrentAsAlone ==
    /\ [](\A t \in Threads : ret[t] # <<>> => ret[t] = Invoke(op[t], args[t]))
    /\ [][OneThreadStep /\ ArgumentsKept]_vars

\* Two sweeps over different ranges are in flight together: one has returned
\* its two rows while the other is between two passes of its loop.
C20_Witness ==
    /\ op[1] = "generate_duration_vs_traffic_data"
    /\ op[2] = "generate_duration_vs_mde_data"
    /\ ret[1] # <<>> /\ ret[1].kind = "return" /\ Len(ret[1].val) = 2
    /\ ret[2] = <<>> /\ local[2].i = 2 /\ Len(local[2].data) = 1

ParamsMethods == {"validate", "treatment_rate", "to_dict"}

\* C21: validate(), treatment_rate() and to_dict() leave alpha, power, mde and
\* baseline_rate of the object unchanged, whether or not the parameters are
\* valid, and treatment_rate() returns baseline_rate * (1 + mde) of the
\* fields the object has at the call.
C21_MethodsLeaveFieldsUnchanged ==
    [][op' \in ParamsMethods =>
          /\ \A name \in FieldNames : args'.self[name] = args.self[name]
          /\ DOMAIN args'.self = FieldNames
          /\ op' = "treatment_rate" =>
                 ret' = Return(FMul(args.self.baseline_rate,
                                    FAdd(One, args.self.mde)))]_vars

\* treatment_rate() was called on an object with invalid fields that had
\* been assigned after the construction.
C21_Witness ==
    /\ op = "treatment_rate"
    /\ args.self.mde = Dec(5, 4)
    /\ args.self.baseline_rate = Dec(9, 10)
    /\ IsNaN(args.self.alpha)
    /\ ret = Return(FMul(Dec(9, 10), Dec(9, 4)))

\* The name of the swept column of the table a sweep returns.
SweptColumn(f) ==
    IF f = "generate_duration_vs_traffic_data" THEN "traffic_allocation"
    ELSE "minimum_detectable_effect"

\* calculate_experiment_duration called with x in the place of the swept
\* parameter of sweep f and the other arguments of a as given.
DurationAt(f, a, x) ==
    calculate_experiment_duration(
        a.baseline_rate,
        IF f = "generate_duration_vs_mde_data" THEN x ELSE a.minimum_detectable_effect,
        a.daily_traffic,
        IF f = "generate_duration_vs_traffic_data" THEN x ELSE a.traffic_allocation,
        a.control_ratio, a.power, a.significance_level, a.hypothesis_type)

\* C22: the table generate_duration_vs_traffic_data or
\* generate_duration_vs_mde_data returns has exactly one row per value of the
\* sweep range, in the order of the range: row i is keyed by the i-th value
\* times 100 and its days_required and total_sample_size are those of
\* calculate_experiment_duration called with the i-th value and the other
\* parameters as given.
C22_OneRowPerSweepValue ==
    \A t \in Threads :
        (op[t] \in Sweeps /\ ret[t] # <<>> /\ ret[t].kind = "return") =>
            LET r == sweep_range(op[t], args[t])
                data == ret[t].val
            IN  /\ Len(data) = Len(r)
                /\ \A i \in 1..Len(r) :
                       LET duration_info == DurationAt(op[t], args[t], r[i])
                       IN  /\ duration_info.kind = "return"
                           /\ data[i][SweptColumn(op[t])] = FMul(r[i], FromInt(100))
                           /\ data[i].days_required = duration_info.val.days_required
                           /\ data[i].total_sample_size
                                  = duration_info.val.total_sample_size

\* Both sweeps have returned a table of two rows, keyed 50, 100 and 10, 20.
C22_Witness ==
    /\ op[1] = "generate_duration_vs_traffic_data"
    /\ op[2] = "generate_duration_vs_mde_data"
    /\ ret[1] # <<>> /\ ret[1].kind = "return"
    /\ ret[2] # <<>> /\ ret[2].kind = "return"
    /\ Len(ret[1].val) = 2
    /\ ret[1].val[1].traffic_allocation = FromInt(50)
    /\ ret[1].val[2].traffic_allocation = FromInt(100)
    /\ Len(ret[2].val) = 2
    /\ ret[2].val[1].minimum_detectable_effect = FromInt(10)
    /\ ret[2].val[2].minimum_detectable_effect = FromInt(20)

InPowerCurve == op = "calculate_power_curve"

\* The two sequences are aligned: as many power values as sample sizes, the
\* i-th the power at the i-th sample size.
PowerCurveAligned ==
    /\ Len(ret.val.power_values) = Len(ret.val.sample_sizes)
    /\ \A i \in 1..Len(ret.val.sample_sizes) :
           ret.val.power_values[i] = args.lib.power[ret.val.sample_sizes[i]]

\* The sample sizes start at min_samples and ascend by step.
PowerCurveSpaced ==
    /\ ret.val.sample_sizes # <<>>
    /\ ret.val.sample_sizes[1] = args.min_samples
    /\ \A i \in 2..Len(ret.val.sample_sizes) :
           /\ ret.val.sample_sizes[i] > ret.val.sample_sizes[i - 1]
           /\ ret.val.sample_sizes[i] = ret.val.sample_sizes[i - 1] + args.step

\* C23: for min_samples <= max_samples and a positive step,
\* calculate_power_curve returns sample_sizes and power_values of equal
\* length, sample_sizes strictly ascending from min_samples in steps of step,
\* every sample size between min_samples and max_samples, and power_values[i]
\* the power at sample_sizes[i].
C23_PowerCurveWithinRange ==
    (InPowerCurve /\ args.min_samples <= args.max_samples /\ args.step > 0) =>
        /\ Returned
        /\ PowerCurveAligned
        /\ PowerCurveSpaced
        /\ \A i \in 1..Len(ret.val.sample_sizes) :
               /\ args.min_samples <= ret.val.sample_sizes[i]
               /\ ret.val.sample_sizes[i] <= args.max_samples

\* A sweep from 1 to 2 in steps of 2 has returned the sample sizes 1 and 3.
C23_Witness ==
    /\ InPowerCurve
    /\ args.min_samples = 1 /\ args.max_samples = 2 /\ args.step = 2
    /\ Returned
    /\ ret.val.sample_sizes = <<1, 3>>
    /\ PowerCurveAligned

\* C24: is_statistically_significant(result, alpha) is true exactly when
\* result.p_value < alpha; every result with the same p_value gives the same
\* answer, whatever its stored flag and the confidence level it was produced
\* with; and a result significant at alpha is significant at every larger
\* alpha.
C24_SignificantIffPValueBelowAlpha ==
    op = "is_statistically_significant" =>
        /\ Returned
        /\ ret.val = FLt(args.test_result.p_value, args.alpha)
        /\ \A other \in TestResults :
               other.p_value = args.test_result.p_value =>
                   is_statistically_significant(other, args.alpha) = ret.val
        /\ \A larger \in Alphas :
               (ret.val /\ FLt(args.alpha, larger)) =>
                   is_statistically_significant(args.test_result, larger)

\* A result stored as not significant at the 0.95 level is found significant
\* at alpha = 0.05 and one stored as significant is found not significant
\* at alpha = 0.01.
C24_Witness ==
    /\ op = "is_statistically_significant"
    /\ \/ /\ args.test_result.p_value = Dec(1, 100)
          /\ args.alpha = Dec(5, 100)
          /\ ~args.test_result.significant
          /\ ret = Return(TRUE)
       \/ /\ args.test_result.p_value = Dec(5, 100)
          /\ args.alpha = Dec(1, 100)
          /\ args.test_result.significant
          /\ ret = Return(FALSE)

\* C25: the per-arm size n the duration path returns is the integer ceiling
\* of the unrounded size ((z_alpha se0 + z_beta se1) / absolute_effect)^2:
\* n - 1 < unrounded size <= n, so it is not rounded to a multiple of 1000.
C25_PlainCeiling ==
    (InSampleSize /\ Returned) =>
        LET sample_size == RawSizeAt(args.minimum_detectable_effect, args.power)
        IN  /\ FLt(FromInt(ret.val - 1), sample_size)
            /\ FLe(sample_size, FromInt(ret.val))

\* A per-arm size that is not a multiple of 1000 has been returned, more
\* than one below the next multiple.
C25_Witness ==
    /\ InSampleSize
    /\ Returned
    /\ ret.val > 1000
    /\ ret.val % 1000 \in 1..998

\* C26: for every control_ratio the total_sample_size
\* calculate_experiment_duration returns is at least 2 n, n the per-arm size
\* of the balanced design: an unequal split never lowers the total.
C26_TotalAtLeastBalanced ==
    (InDuration /\ Returned) =>
        ret.val.total_sample_size >= 2 * local.sample_size_per_variant.val

\* An unequal split has returned a total above the balanced one.
C26_Witness ==
    /\ InDuration
    /\ Returned
    /\ args.control_ratio = Dec(1, 10)
    /\ ret.val.total_sample_size > 5 * local.sample_size_per_variant.val

\* The call with the two arms' shares exchanged: control_ratio is
\* 1 - control_ratio of the call, everything else as given.
MirroredCall ==
    duration_from(local.sample_size_per_variant, args.daily_traffic,
                  args.traffic_allocation, FSub(One, args.control_ratio))

\* C27: calculate_experiment_duration is symmetric in the allocation: the
\* call with control_ratio 1 - c returns the total_sample_size and the
\* days_required of the call with control_ratio c, and its
\* control_sample_size and treatment_sample_size are those of the call with c
\* exchanged.
C27_SymmetricInAllocation ==
    (InDuration /\ Returned) =>
        LET mirrored == MirroredCall
        IN  /\ mirrored.kind = "return"
            /\ mirrored.val.total_sample_size = ret.val.total_sample_size
            /\ mirrored.val.days_required = ret.val.days_required
            /\ mirrored.val.control_sample_size = ret.val.treatment_sample_size
            /\ mirrored.val.treatment_sample_size = ret.val.control_sample_size

\* The complement of the complement of control_ratio, as the code computes
\* it, is control_ratio again.
ComplementExact ==
    FSub(One, FSub(One, args.control_ratio)) = args.control_ratio

\* C27, amended: the symmetry holds for every control_ratio whose complement
\* is exact.
C27_SymmetricWhereComplementExact ==
    (InDuration /\ Returned /\ ComplementExact) =>
        LET mirrored == MirroredCall
        IN  /\ mirrored.kind = "return"
            /\ mirrored.val.total_sample_size = ret.val.total_sample_size
            /\ mirrored.val.days_required = ret.val.days_required
            /\ mirrored.val.control_sample_size = ret.val.treatment_sample_size
            /\ mirrored.val.treatment_sample_size = ret.val.control_sample_size

\* With 80% in control the total is 1301 and so it is with 1 - 0.8 in control,
\* the arms exchanged.
C27_Witness ==
    /\ InDuration
    /\ Returned
    /\ args.control_ratio = Dec(8, 10)
    /\ ComplementExact
    /\ local.sample_size_per_variant.val = 416
    /\ ret.val.total_sample_size = 1301
    /\ ret.val.control_sample_size = 1041
    /\ MirroredCall.val.total_sample_size = 1301
    /\ MirroredCall.val.treatment_sample_size = 1041

\* The statistic has the sign of treatment_metric - control_metric.
SignOfDifference ==
    /\ ret.val.difference = FSub(ret.val.treatment_metric, ret.val.control_metric)
    /\ FLt(Zero, ret.val.statistic) <=> FLt(ret.val.control_metric, ret.val.treatment_metric)
    /\ FLt(ret.val.statistic, Zero) <=> FLt(ret.val.treatment_metric, ret.val.control_metric)
    /\ FEq(ret.val.statistic, Zero) <=> FEq(ret.val.treatment_metric, ret.val.control_metric)

\* A proportion_test on non-empty groups whose pooled proportion is strictly
\* between 0 and 1.
RegularProportionTest ==
    /\ NonEmptyProportionTest
    /\ args.control_successes + args.treatment_successes > 0
    /\ args.control_successes + args.treatment_successes
           < args.control_size + args.treatment_size

\* A mean_test on groups of at least two observations, not both constant.
RegularMeanTest ==
    /\ op = "mean_test"
    /\ Len(args.control_data) >= 2
    /\ Len(args.treatment_data) >= 2
    /\ \E x \in {args.control_data, args.treatment_data} :
           \E i \in DOMAIN x : x[i] # x[1]

\* C28: for proportion_test (non-empty groups, pooled proportion strictly
\* between 0 and 1) and for every mean_test that returns, the sign of
\* statistic is the sign of difference = treatment_metric - control_metric.
C28_StatisticOrientedTreatmentMinusControl ==
    ((RegularProportionTest \/ op = "mean_test") /\ Returned) => SignOfDifference

\* C28, amended: the same for proportion_test and for mean_test on groups of
\* at least two observations that are not both constant.
C28_StatisticOrientedWhereDefined ==
    ((RegularProportionTest \/ RegularMeanTest) /\ Returned) => SignOfDifference

\* A proportion_test and a mean_test have returned a negative statistic for
\* a treatment metric below the control metric.
C28_Witness ==
    /\ RegularProportionTest \/ RegularMeanTest
    /\ Returned
    /\ FLt(ret.val.statistic, Zero)
    /\ FLt(ret.val.treatment_metric, ret.val.control_metric)

\* treatment_rate() has returned for an object whose validate() is empty.
ValidTreatmentRate ==
    /\ op = "treatment_rate"
    /\ Returned
    /\ DOMAIN validate(args.self).val = {}

\* The claim C29 as stated: for parameters that validate() accepts,
\* baseline_rate < treatment_rate() < 2 * baseline_rate, strictly.
C29_TreatmentRateStrictlyBetween ==
    ValidTreatmentRate =>
        /\ FLt(args.self.baseline_rate, ret.val)
        /\ FLt(ret.val, FMul(Two, args.self.baseline_rate))

\* C29: for parameters that validate() accepts, treatment_rate() lies between
\* baseline_rate and 2 * baseline_rate, both included (1 + mde rounds to 1 or
\* to 2 for an mde next to 0 or to 1), and it is below 1 whenever the rounded
\* bound 2 * baseline_rate is; validate() puts no bound of 1 on it.
C29_TreatmentRateBetween ==
    ValidTreatmentRate =>
        /\ FLe(args.self.baseline_rate, ret.val)
        /\ FLe(ret.val, FMul(Two, args.self.baseline_rate))
        /\ ~IsNaN(ret.val)

\* validate() accepted parameters whose treatment rate is 1 or more.
C29_Witness ==
    /\ ValidTreatmentRate
    /\ FLe(One, ret.val)
    /\ FLt(ret.val, FMul(Two, args.self.baseline_rate))
    /\ FLt(args.self.baseline_rate, ret.val)

\* A binary AA test on two non-empty 0/1 groups with equal observed
\* proportions.
EqualProportionsAATest ==
    /\ NonEmptyBinaryAATest
    /\ SumSeq(args.control_group) * Len(args.treatment_group)
           = SumSeq(args.treatment_group) * Len(args.control_group)

\* C30: aa_test with metric_type "binary" on two non-empty 0/1 groups whose
\* observed proportions are equal, both all zeros and both all ones
\* included, returns passed true and no warning_message.
C30_IdenticalGroupsPass ==
    EqualProportionsAATest =>
        /\ Returned
        /\ ret.val.passed
        /\ ret.val.warning_message = None

\* Two groups in which every observation is a success were compared: the
\* statistic is 0 / 0, the check fails and a warning is attached.
C30_Witness ==
    /\ EqualProportionsAATest
    /\ SumSeq(args.control_group) = Len(args.control_group)
    /\ Returned
    /\ IsNaN(ret.val.statistic)
    /\ ~ret.val.passed
    /\ ret.val.warning_message # None
====
